---- MODULE Spec2Model ----
(***************************************************************************)
(* Model of dembrandt: the extractBranding pipeline (src/lib/extractors.js) *)
(* as driven by the CLI action (src/unnamed/part_001) or called directly   *)
(* as a library function that launches its own browser, and the palette    *)
(* computation of extractColors.                                           *)
(***************************************************************************)
EXTENDS Integers, Sequences, FiniteSets, TLC

VARIABLES
    opts,           \* [caller, debug, darkMode, mobile]: the inputs of one run
    pc,             \* the await the run is suspended at
    useHeaded,      \* part_001: let useHeaded
    browser,        \* the caller's browser reference: "null" | "live" | "closed"
    launched,       \* number of successful chromium.launch calls
    closed,         \* number of browser.close calls on a live browser
    relaunches,     \* number of times the CLI took `continue` with useHeaded = true
    attempts,       \* extractors.js: let attempts
    navs,           \* page.goto calls made by the current extractBranding call
    totalNavs,      \* page.goto calls made by the whole run
    gotoFails,      \* attempts of the current call whose page.goto threw
    thin,           \* attempts of the current call whose contentLength was <= 500
    contentLength,  \* the last value read at extractors.js:146 (-1: none yet)
    slept,          \* argument of the last completed page.waitForTimeout
    stage,          \* spinner.text
    err,            \* the error in flight or thrown: "none" or its message class
    logged,         \* [attempts, url, stage]: what the catch blocks printed
    started,        \* fan-out extractors that have been called
    done,           \* fan-out extractors whose promise has resolved
    page,           \* [themeAttrs, colorScheme, viewport]: mutable page state
    passes,         \* secondary passes begun, in order: hover, dark, mobile, assemble
    activePass,     \* the secondary pass whose awaits are pending, or "none"
    result,         \* the ExtractionResult [assembled, isCanvasOnly, note, data]
    canvasProbe,    \* [canvases, hasWebGL, textLength]: what the canvas check read
    outcome,        \* "pending" | "success" | "failed" | "exit1"
    snapshot,       \* [walk, totalElements, hiddenElements]: the page extractColors is evaluated on
    colors,         \* [candidates, groups, palette]: what extractColors computed
    colorsPc,       \* "idle" | "ready" | "extracted"
    mergePrev,      \* colors.palette before the last merge
    mergeInput,     \* what the last merge merged in: hoverFocusColors or a variant palette
    mergedPalette,  \* colors.palette as merged so far
    mergePc,        \* "idle" | "baseline" | "hover" | "dark" | "mobile"
    normTrace,      \* a color string followed by the results of normalizing it again and again
    typoElements,   \* the elements extractTypography samples, in document order
    typoStyles,     \* the clusters of extractTypography, in insertion order
    typoPc,         \* "idle" | "ready" | "extracted"
    navOptions,     \* [caller, navigationTimeout, slow]: the options a navigation runs under
    navTimeout,     \* the timeout page.goto was given (-1: none yet)
    navPc,          \* "idle" | "cli" | "called" | "navigated"
    styleSheets,    \* document.styleSheets: each cross-origin or a list of rules
    interactive,    \* number of interactive elements of the document
    hoverFound,     \* the hoverColors array of the hover/focus page.evaluate
    breakpoints,    \* what extractBreakpoints returned
    stylePc,        \* "idle" | "ready" | "breakpoints" | "hover"
    cssDeclared,    \* cssVariables: the values of the custom properties, in declaration order
    cssPalette,     \* perceptuallyDeduped when the custom properties are filtered
    cssFiltered,    \* filteredCssVariables: [prop, value] entries in insertion order
    cssPc,          \* "idle" | "ready" | "filtered"
    buttonEls,      \* document.querySelectorAll('button, .btn, [class*="button"]')
    inputEls,       \* document.querySelectorAll("input, textarea, select")
    linkEls,        \* document.querySelectorAll("a")
    components,     \* [buttons, inputs, links]: what the three extractors returned
    componentsDone  \* the component extractors that have returned

pipeVars == <<opts, pc, useHeaded, browser, launched, closed, relaunches, attempts,
              navs, totalNavs, gotoFails, thin, contentLength, slept, stage, err,
              logged, started, done, page, passes, activePass, result, canvasProbe,
              outcome>>

colorVars == <<snapshot, colors, colorsPc>>

mergeVars == <<mergePrev, mergeInput, mergedPalette, mergePc>>

\* the state of the computations modelled on their own
normVars == <<normTrace>>

typoVars == <<typoElements, typoStyles, typoPc>>

navVars == <<navOptions, navTimeout, navPc>>

styleVars == <<styleSheets, interactive, hoverFound, breakpoints, stylePc>>

\* the state of the computations over the DOM and the style sheets
cssVars == <<cssDeclared, cssPalette, cssFiltered, cssPc>>

componentVars == <<buttonEls, inputEls, linkEls, components, componentsDone>>

domVars == <<styleVars, cssVars, componentVars>>

pureVars == <<colorVars, mergeVars, normVars, typoVars, navVars, domVars>>

vars == <<pipeVars, pureVars>>

\* ------------------------------------------------------------------ constants

maxAttempts == 2

MinContentLength == 500

HydrationWait == 8000

StabilizationWait == 4000

RetryBackoff == 3000

VariantWait == 500

\* message classes of a thrown error, as told apart at part_001:78-81
ErrClass == {"Timeout", "net::ERR_", "other"}

\* the promises handed to Promise.all
Extractors == {"colors", "typography", "spacing", "borderRadius", "shadows",
               "buttons", "inputs", "links", "breakpoints", "iconSystem",
               "frameworks"}

\* values document.body.textContent.length is drawn from
ContentLengths == {0, 500, 501}

Callers == {"cli", "lib"}

FreshPage == [themeAttrs |-> FALSE, colorScheme |-> "light", viewport |-> "desktop"]

NoResult == [assembled |-> FALSE, isCanvasOnly |-> FALSE, note |-> FALSE, data |-> <<>>]

NoProbe == [canvases |-> 0, hasWebGL |-> FALSE, textLength |-> 0]

NoSnapshot == [walk |-> <<>>, totalElements |-> 0, hiddenElements |-> 0]

NoColors == [candidates |-> <<>>, groups |-> <<>>, palette |-> <<>>]

NoLog == [attempts |-> 0, url |-> FALSE, stage |-> "none"]

ownBrowser == opts.caller = "lib"

\* ------------------------------------------------------------------ Init

Options == {o \in [caller : Callers, debug : BOOLEAN, darkMode : BOOLEAN,
                   mobile : BOOLEAN] : o.caller = "lib" => ~o.debug}

\* the run before its first step, called with options o
PipeInit(o) ==
    /\ opts = o
    /\ pc = IF o.caller = "cli" THEN "cli_launch" ELSE "launch"
    /\ useHeaded = o.debug
    /\ browser = "null"
    /\ launched = 0
    /\ closed = 0
    /\ relaunches = 0
    /\ attempts = 0
    /\ navs = 0
    /\ totalNavs = 0
    /\ gotoFails = 0
    /\ thin = 0
    /\ contentLength = -1
    /\ slept = 0
    /\ stage = "Starting extraction..."
    /\ err = "none"
    /\ logged = NoLog
    /\ started = {}
    /\ done = {}
    /\ page = FreshPage
    /\ passes = <<>>
    /\ activePass = "none"
    /\ result = NoResult
    /\ canvasProbe = NoProbe
    /\ outcome = "pending"

\* a run of the library on its defaults, not started
PipeIdle ==
    PipeInit([caller |-> "lib", debug |-> FALSE, darkMode |-> FALSE, mobile |-> FALSE])

\* extractColors not called
ColorIdle ==
    /\ snapshot = NoSnapshot
    /\ colors = NoColors
    /\ colorsPc = "idle"

\* no palette to merge into
MergeIdle ==
    /\ mergePrev = <<>>
    /\ mergeInput = <<>>
    /\ mergedPalette = <<>>
    /\ mergePc = "idle"

\* normalizeColor not called
NormIdle == normTrace = <<>>

\* extractTypography not called
TypoIdle ==
    /\ typoElements = <<>>
    /\ typoStyles = <<>>
    /\ typoPc = "idle"

\* an option left out of the options object
Unset == -1

\* no navigation options chosen
NavIdle ==
    /\ navOptions = [caller |-> "lib", navigationTimeout |-> Unset, slow |-> FALSE]
    /\ navTimeout = -1
    /\ navPc = "idle"

\* no style sheet read
StyleIdle ==
    /\ styleSheets = <<>>
    /\ interactive = 0
    /\ hoverFound = <<>>
    /\ breakpoints = <<>>
    /\ stylePc = "idle"

\* no computation over the DOM and the style sheets begun
CssIdle ==
    /\ cssDeclared = <<>>
    /\ cssPalette = <<>>
    /\ cssFiltered = <<>>
    /\ cssPc = "idle"

NoComponents == [buttons |-> <<>>, inputs |-> <<>>, links |-> <<>>]

ComponentIdle ==
    /\ buttonEls = <<>>
    /\ inputEls = <<>>
    /\ linkEls = <<>>
    /\ components = NoComponents
    /\ componentsDone = {}

DomIdle == StyleIdle /\ CssIdle /\ ComponentIdle

\* every computation modelled on its own is idle
PureIdle ==
    /\ ColorIdle
    /\ MergeIdle
    /\ NormIdle
    /\ TypoIdle
    /\ NavIdle
    /\ DomIdle

Init ==
    /\ \E o \in Options : PipeInit(o)
    /\ PureIdle

\* ------------------------------------------------------------------ helpers

browserVars == <<browser, launched, closed>>

cliVars == <<useHeaded, relaunches>>

loopVars == <<attempts, navs, totalNavs, gotoFails, thin, contentLength, slept>>

fanVars == <<started, done>>

passVars == <<page, passes, activePass, result, canvasProbe>>

\* the extractors whose promise has not resolved: still running, or rejected
running == started \ done

NavStage(a) ==
    IF a = 1 THEN "Navigating (attempt 1/2)..." ELSE "Navigating (attempt 2/2)..."

LoopContinuesOffByOne(a) == a <= maxAttempts

\* extractors.js:82  while (attempts < maxAttempts)
LoopContinues(a) == a < maxAttempts

\* extractors.js:151  if (contentLength > 500) break
ContentOk(len) == len > MinContentLength

RethrowsLate(a) == a > maxAttempts

\* extractors.js:163  if (attempts >= maxAttempts) ... throw err
Rethrows(a) == a >= maxAttempts

NeverRetriedDropped(headed) == FALSE

\* part_001:76  if (useHeaded) throw err
NeverRetried(headed) == headed

\* part_001:78-81  err.message.includes("Timeout") || err.message.includes("net::ERR_")
IsBotDetection(e) == e \in {"Timeout", "net::ERR_"}

\* extractBranding rejects with e: control returns to its caller
Reject(e) ==
    /\ err' = e
    /\ IF opts.caller = "cli"
       THEN pc' = "cli_innerCatch" /\ outcome' = outcome
       ELSE pc' = "done" /\ outcome' = "failed"

\* extractors.js:450-457  an error reaches the outer catch with lg printed so far.
\* With an own browser the handler first awaits browser.close() (action Catch);
\* with a passed browser it prints URL and stage and rethrows at once.
OuterThrow(e, lg) ==
    IF ownBrowser
    THEN /\ pc' = "catch"
         /\ err' = e
         /\ logged' = lg
         /\ UNCHANGED outcome
    ELSE /\ logged' = [lg EXCEPT !.url = TRUE, !.stage = stage]
         /\ Reject(e)

\* extractors.js:162-174  the inner catch of the attempt loop, up to its await
InnerCatch(e) ==
    IF Rethrows(attempts)
    THEN OuterThrow(e, [logged EXCEPT !.attempts = maxAttempts, !.url = TRUE])
    ELSE /\ pc' = "backoffErr"
         /\ err' = "none"
         /\ UNCHANGED <<logged, outcome>>

\* an awaited call returned: nothing is thrown
NoThrow == UNCHANGED <<err, logged, outcome>>

\* extractors.js:20-43  the state of a fresh extractBranding call on a fresh page
EnterExtractBranding ==
    /\ attempts' = 0
    /\ navs' = 0
    /\ gotoFails' = 0
    /\ thin' = 0
    /\ contentLength' = -1
    /\ slept' = 0
    /\ started' = {}
    /\ done' = {}
    /\ page' = FreshPage
    /\ passes' = <<>>
    /\ activePass' = "none"
    /\ result' = NoResult
    /\ canvasProbe' = NoProbe
    /\ logged' = NoLog
    /\ err' = "none"
    /\ stage' = "Creating browser context with stealth mode..."
    /\ pc' = "newContext"

\* ------------------------------------------------------------------ CLI (part_001)

\* part_001:42-71  chromium.launch, then the call of extractBranding
CliLaunch ==
    /\ pc = "cli_launch"
    /\ UNCHANGED pureVars
    /\ \/ /\ browser' = "live"
          /\ launched' = launched + 1
          /\ EnterExtractBranding
          /\ UNCHANGED <<opts, cliVars, closed, totalNavs, outcome>>
       \/ \E e \in ErrClass :
          /\ pc' = "cli_outerCatch"
          /\ err' = e
          /\ stage' = IF useHeaded THEN "Launching browser (visible mode)"
                                   ELSE "Launching browser (headless mode)"
          /\ UNCHANGED <<opts, cliVars, browserVars, loopVars, fanVars, passVars,
                         logged, outcome>>

ClosedByCliNever(b, n) == n

\* part_001:73  await browser.close(): the count of closed browsers after it
ClosedByCli(b, n) == IF b = "live" THEN n + 1 ELSE n

\* part_001:72-92  catch (err) around extractBranding: close, then relaunch or rethrow
CliInnerCatch ==
    /\ pc = "cli_innerCatch"
    /\ UNCHANGED pureVars
    /\ browser' = "null"
    /\ closed' = ClosedByCli(browser, closed)
    /\ IF ~NeverRetried(useHeaded) /\ IsBotDetection(err)
       THEN /\ useHeaded' = TRUE
            /\ relaunches' = relaunches + 1
            /\ pc' = "cli_launch"
       ELSE /\ pc' = "cli_outerCatch"
            /\ UNCHANGED cliVars
    /\ UNCHANGED <<opts, launched, loopVars, fanVars, passVars, stage, err, logged,
                   outcome>>

\* part_001:134-152  catch (err) ... process.exit(1)
CliOuterCatch ==
    /\ pc = "cli_outerCatch"
    /\ UNCHANGED pureVars
    /\ pc' = "done"
    /\ outcome' = "exit1"
    /\ UNCHANGED <<opts, cliVars, browserVars, loopVars, fanVars, passVars, stage,
                   err, logged>>

\* part_001:95-133 and 153-155  output, then finally { if (browser) await browser.close() }
CliFinish ==
    /\ pc = "cli_output"
    /\ UNCHANGED pureVars
    /\ pc' = "done"
    /\ outcome' = "success"
    /\ browser' = IF browser = "live" THEN "closed" ELSE browser
    /\ closed' = IF browser = "live" THEN closed + 1 ELSE closed
    /\ UNCHANGED <<opts, cliVars, launched, loopVars, fanVars, passVars, stage, err,
                   logged>>

\* ------------------------------------------------------------------ extractBranding

\* extractors.js:29-43  if (ownBrowser) browser = await chromium.launch(...)
Launch ==
    /\ pc = "launch"
    /\ UNCHANGED pureVars
    /\ \/ /\ browser' = "live"
          /\ launched' = launched + 1
          /\ EnterExtractBranding
          /\ UNCHANGED <<opts, cliVars, closed, totalNavs, outcome>>
       \/ \E e \in ErrClass :
          /\ Reject(e)
          /\ UNCHANGED <<opts, cliVars, browserVars, fanVars, loopVars, passVars,
                         stage, logged>>

\* extractors.js:44-53  await browser.newContext(...), outside the try
NewContext ==
    /\ pc = "newContext"
    /\ UNCHANGED pureVars
    /\ \/ /\ pc' = "addInitScript"
          /\ stage' = "Injecting anti-detection scripts..."
          /\ NoThrow
       \/ \E e \in ErrClass : Reject(e) /\ UNCHANGED <<stage, logged>>
    /\ UNCHANGED <<opts, cliVars, browserVars, fanVars, loopVars, passVars>>

\* extractors.js:55-74  await context.addInitScript(...), outside the try
AddInitScript ==
    /\ pc = "addInitScript"
    /\ UNCHANGED pureVars
    /\ \/ pc' = "newPage" /\ NoThrow
       \/ \E e \in ErrClass : Reject(e) /\ UNCHANGED logged
    /\ UNCHANGED <<opts, cliVars, browserVars, fanVars, loopVars, passVars, stage>>

\* extractors.js:76-80  await context.newPage(), outside the try; then the try is entered
NewPage ==
    /\ pc = "newPage"
    /\ UNCHANGED pureVars
    /\ \/ pc' = "loopHead" /\ NoThrow
       \/ \E e \in ErrClass : Reject(e) /\ UNCHANGED logged
    /\ UNCHANGED <<opts, cliVars, browserVars, fanVars, loopVars, passVars, stage>>

\* extractors.js:82-84  the loop test, attempts++ and the spinner text
LoopHead ==
    /\ pc = "loopHead"
    /\ UNCHANGED pureVars
    /\ IF LoopContinues(attempts)
       THEN /\ attempts' = attempts + 1
            /\ stage' = NavStage(attempts + 1)
            /\ pc' = "goto"
       ELSE /\ attempts' = attempts
            /\ stage' = "Extracting logo and favicons..."
            /\ pc' = "extractLogo"
    /\ NoThrow
    /\ UNCHANGED <<opts, cliVars, browserVars, fanVars, navs, totalNavs, gotoFails, thin,
                   contentLength, slept, passVars>>

\* extractors.js:87-114  await page.goto(url, ...)
Goto ==
    /\ pc = "goto"
    /\ UNCHANGED pureVars
    /\ navs' = navs + 1
    /\ totalNavs' = totalNavs + 1
    /\ \/ /\ pc' = "hydrate"
          /\ stage' = "Waiting for SPA hydration..."
          /\ gotoFails' = gotoFails
          /\ NoThrow
       \/ \E e \in ErrClass :
          /\ gotoFails' = gotoFails + 1
          /\ InnerCatch(e)
          /\ UNCHANGED stage
    /\ UNCHANGED <<opts, cliVars, browserVars, fanVars, attempts, thin, contentLength, slept,
                   passVars>>

\* extractors.js:115-119  await page.waitForTimeout(8000)
Hydrate ==
    /\ pc = "hydrate"
    /\ UNCHANGED pureVars
    /\ \/ /\ pc' = "waitMain"
          /\ slept' = HydrationWait
          /\ stage' = "Waiting for main content..."
          /\ NoThrow
       \/ \E e \in ErrClass : InnerCatch(e) /\ UNCHANGED <<slept, stage>>
    /\ UNCHANGED <<opts, cliVars, browserVars, fanVars, attempts, navs, totalNavs, gotoFails,
                   thin, contentLength, passVars>>

\* extractors.js:120-127  try { await page.waitForSelector(..., {timeout: 10000}) }:
\* the selector is found, or the wait times out and control enters the catch block
WaitMain ==
    /\ pc = "waitMain"
    /\ UNCHANGED pureVars
    /\ \/ /\ pc' = "mouse"
          /\ stage' = "Simulating human interaction..."
       \/ /\ pc' = "mainTimeout"
          /\ stage' = stage
    /\ NoThrow
    /\ UNCHANGED <<opts, cliVars, browserVars, fanVars, loopVars, passVars>>

SelectorTimeoutEndsAttempt ==
    /\ InnerCatch("Timeout")
    /\ UNCHANGED stage

\* extractors.js:127-131  catch { console.log("... (continuing anyway)") }: the
\* error is not bound and nothing is thrown; the attempt goes on
SelectorTimeoutCaught ==
    /\ pc' = "mouse"
    /\ stage' = "Simulating human interaction..."
    /\ NoThrow

\* extractors.js:127-133  the catch block of the main-content wait
MainContentTimeout ==
    /\ pc = "mainTimeout"
    /\ UNCHANGED pureVars
    /\ SelectorTimeoutCaught
    /\ UNCHANGED <<opts, cliVars, browserVars, fanVars, loopVars, passVars>>

\* extractors.js:133-136  await page.mouse.move(...)
MouseMove ==
    /\ pc = "mouse"
    /\ UNCHANGED pureVars
    /\ \/ pc' = "scroll" /\ NoThrow
       \/ \E e \in ErrClass : InnerCatch(e)
    /\ UNCHANGED <<opts, cliVars, browserVars, fanVars, loopVars, passVars, stage>>

\* extractors.js:137-141  await page.evaluate(() => window.scrollTo(0, 400))
Scroll ==
    /\ pc = "scroll"
    /\ UNCHANGED pureVars
    /\ \/ /\ pc' = "stabilize"
          /\ stage' = "Final content stabilization..."
          /\ NoThrow
       \/ \E e \in ErrClass : InnerCatch(e) /\ UNCHANGED stage
    /\ UNCHANGED <<opts, cliVars, browserVars, fanVars, loopVars, passVars>>

\* extractors.js:142-145  await page.waitForTimeout(4000)
Stabilize ==
    /\ pc = "stabilize"
    /\ UNCHANGED pureVars
    /\ \/ /\ pc' = "readLength"
          /\ slept' = StabilizationWait
          /\ stage' = "Validating page content..."
          /\ NoThrow
       \/ \E e \in ErrClass : InnerCatch(e) /\ UNCHANGED <<slept, stage>>
    /\ UNCHANGED <<opts, cliVars, browserVars, fanVars, attempts, navs, totalNavs, gotoFails,
                   thin, contentLength, passVars>>

\* extractors.js:146-160  read the text length; break when it is above 500
ReadLength ==
    /\ pc = "readLength"
    /\ UNCHANGED pureVars
    /\ \/ \E len \in ContentLengths :
          /\ contentLength' = len
          /\ IF ContentOk(len)
             THEN /\ pc' = "extractLogo"
                  /\ stage' = "Extracting logo and favicons..."
                  /\ thin' = thin
             ELSE /\ pc' = "backoffThin"
                  /\ stage' = stage
                  /\ thin' = thin + 1
          /\ NoThrow
       \/ \E e \in ErrClass : InnerCatch(e) /\ UNCHANGED <<contentLength, thin, stage>>
    /\ UNCHANGED <<opts, cliVars, browserVars, fanVars, attempts, navs, totalNavs, gotoFails,
                   slept, passVars>>

\* extractors.js:161  await page.waitForTimeout(3000) after a too-thin page
BackoffThin ==
    /\ pc = "backoffThin"
    /\ UNCHANGED pureVars
    /\ \/ pc' = "loopHead" /\ slept' = RetryBackoff /\ NoThrow
       \/ \E e \in ErrClass : InnerCatch(e) /\ UNCHANGED slept
    /\ UNCHANGED <<opts, cliVars, browserVars, fanVars, attempts, navs, totalNavs, gotoFails,
                   thin, contentLength, passVars, stage>>

\* extractors.js:173  await page.waitForTimeout(3000) inside the inner catch
BackoffErr ==
    /\ pc = "backoffErr"
    /\ UNCHANGED pureVars
    /\ \/ pc' = "loopHead" /\ slept' = RetryBackoff /\ NoThrow
       \/ \E e \in ErrClass : OuterThrow(e, logged) /\ UNCHANGED slept
    /\ UNCHANGED <<opts, cliVars, browserVars, fanVars, attempts, navs, totalNavs, gotoFails,
                   thin, contentLength, passVars, stage>>

\* extractors.js:183-218  await extractLogo, then the eleven extractors are called
\* inside the array literal handed to Promise.all
ExtractLogo ==
    /\ pc = "extractLogo"
    /\ UNCHANGED pureVars
    /\ \/ /\ pc' = "join"
          /\ stage' = "Analyzing design system in parallel..."
          /\ started' = Extractors
          /\ UNCHANGED <<done, err, logged, outcome>>
       \/ \E e \in ErrClass : OuterThrow(e, logged) /\ UNCHANGED <<fanVars, stage>>
    /\ UNCHANGED <<opts, cliVars, browserVars, loopVars, passVars>>

\* one extractor's page.evaluate resolves
ExtractorDone ==
    /\ pc = "join"
    /\ UNCHANGED pureVars
    /\ \E x \in running : done' = done \cup {x}
    /\ UNCHANGED <<opts, pc, cliVars, browserVars, loopVars, started, passVars, stage,
                   err, logged, outcome>>

PromiseAllSettles(e) ==
    /\ err' = e
    /\ done' = Extractors
    /\ UNCHANGED <<pc, logged, outcome>>

\* extractors.js:206-218, 450  Promise.all rejects with the error of the promise that
\* rejected: the await throws into the outer catch, and what the other promises
\* resolved to is dropped
PromiseAllRejects(e) ==
    /\ OuterThrow(e, logged)
    /\ done' = {}

\* one extractor's page.evaluate rejects
ExtractorFail ==
    /\ pc = "join"
    /\ UNCHANGED pureVars
    /\ running # {}
    /\ \E e \in ErrClass : PromiseAllRejects(e)
    /\ UNCHANGED <<opts, cliVars, browserVars, started, loopVars, passVars, stage>>

JoinReadyAny(d) == d # {}

\* extractors.js:206  Promise.all resolves once every promise has resolved
JoinReady(d) == d = Extractors

PassAfterSwapped(p) ==
    IF p = "hover" /\ opts.mobile THEN "mobile"
    ELSE IF p \in {"hover", "mobile"} /\ opts.darkMode THEN "dark"
    ELSE "assemble"

\* extractors.js:326, 382, 411  which pass follows pass p
PassAfter(p) ==
    IF p = "hover" /\ opts.darkMode THEN "dark"
    ELSE IF p \in {"hover", "dark"} /\ opts.mobile THEN "mobile"
    ELSE "assemble"

PassPc(p) ==
    IF p = "dark" THEN "darkToggle"
    ELSE IF p = "mobile" THEN "mobileViewport"
    ELSE "canvas"

PassStage(p) ==
    IF p = "dark" THEN "Extracting dark mode colors..."
    ELSE IF p = "mobile" THEN "Extracting mobile viewport colors..."
    ELSE stage

\* the synchronous code from the end of pass p to the next await
Proceed(p) ==
    /\ passes' = Append(passes, PassAfter(p))
    /\ activePass' = IF PassAfter(p) = "assemble" THEN "none" ELSE PassAfter(p)
    /\ pc' = PassPc(PassAfter(p))
    /\ stage' = PassStage(PassAfter(p))

\* extractors.js:206-242  the await of Promise.all returns; the hover/focus pass begins
Join ==
    /\ pc = "join"
    /\ UNCHANGED pureVars
    /\ JoinReady(done)
    /\ pc' = "hover"
    /\ stage' = "Extracting hover/focus state colors..."
    /\ passes' = Append(passes, "hover")
    /\ activePass' = "hover"
    /\ NoThrow
    /\ UNCHANGED <<opts, cliVars, browserVars, fanVars, loopVars, page, result, canvasProbe>>

\* extractors.js:242-323  the hover/focus page.evaluate and the merge into the palette
Hover ==
    /\ pc = "hover"
    /\ UNCHANGED pureVars
    /\ \/ Proceed("hover") /\ NoThrow
       \/ \E e \in ErrClass :
          OuterThrow(e, logged) /\ UNCHANGED <<passes, activePass, stage>>
    /\ UNCHANGED <<opts, cliVars, browserVars, fanVars, loopVars, page, result, canvasProbe>>

\* extractors.js:331-343  page.evaluate setting the theme attributes and classes
DarkToggle ==
    /\ pc = "darkToggle"
    /\ UNCHANGED pureVars
    /\ \/ /\ pc' = "darkEmulate"
          /\ page' = [page EXCEPT !.themeAttrs = TRUE]
          /\ NoThrow
       \/ \E e \in ErrClass : OuterThrow(e, logged) /\ UNCHANGED page
    /\ UNCHANGED <<opts, cliVars, browserVars, fanVars, loopVars, passes, activePass, result, canvasProbe,
                   stage>>

\* extractors.js:346  await page.emulateMedia({ colorScheme: 'dark' })
DarkEmulate ==
    /\ pc = "darkEmulate"
    /\ UNCHANGED pureVars
    /\ \/ /\ pc' = "darkWait"
          /\ page' = [page EXCEPT !.colorScheme = "dark"]
          /\ NoThrow
       \/ \E e \in ErrClass : OuterThrow(e, logged) /\ UNCHANGED page
    /\ UNCHANGED <<opts, cliVars, browserVars, fanVars, loopVars, passes, activePass, result, canvasProbe,
                   stage>>

\* extractors.js:349  await page.waitForTimeout(500)
DarkWait ==
    /\ pc = "darkWait"
    /\ UNCHANGED pureVars
    /\ \/ pc' = "darkColors" /\ slept' = VariantWait /\ NoThrow
       \/ \E e \in ErrClass : OuterThrow(e, logged) /\ UNCHANGED slept
    /\ UNCHANGED <<opts, cliVars, browserVars, fanVars, attempts, navs, totalNavs, gotoFails,
                   thin, contentLength, passVars, stage>>

\* extractors.js:351  await extractColors(page)
DarkColors ==
    /\ pc = "darkColors"
    /\ UNCHANGED pureVars
    /\ \/ pc' = "darkButtons" /\ NoThrow
       \/ \E e \in ErrClass : OuterThrow(e, logged)
    /\ UNCHANGED <<opts, cliVars, browserVars, fanVars, loopVars, passVars, stage>>

\* extractors.js:352  await extractButtonStyles(page)
DarkButtons ==
    /\ pc = "darkButtons"
    /\ UNCHANGED pureVars
    /\ \/ pc' = "darkLinks" /\ NoThrow
       \/ \E e \in ErrClass : OuterThrow(e, logged)
    /\ UNCHANGED <<opts, cliVars, browserVars, fanVars, loopVars, passVars, stage>>

PageRestoredAfterPass(pg) == FreshPage

\* extractors.js:353-380, 392-409  a variant pass ends with its merge: no attribute,
\* class, media emulation or viewport is set back
PageAfterPass(pg) == pg

\* extractors.js:353-379  await extractLinkStyles(page), then the dark-mode merge
DarkLinks ==
    /\ pc = "darkLinks"
    /\ UNCHANGED pureVars
    /\ \/ Proceed("dark") /\ page' = PageAfterPass(page) /\ NoThrow
       \/ \E e \in ErrClass :
          OuterThrow(e, logged) /\ UNCHANGED <<passes, activePass, stage, page>>
    /\ UNCHANGED <<opts, cliVars, browserVars, fanVars, loopVars, result, canvasProbe>>

\* extractors.js:387  await page.setViewportSize({ width: 375, height: 667 })
MobileViewport ==
    /\ pc = "mobileViewport"
    /\ UNCHANGED pureVars
    /\ \/ /\ pc' = "mobileWait"
          /\ page' = [page EXCEPT !.viewport = "mobile"]
          /\ NoThrow
       \/ \E e \in ErrClass : OuterThrow(e, logged) /\ UNCHANGED page
    /\ UNCHANGED <<opts, cliVars, browserVars, fanVars, loopVars, passes, activePass, result, canvasProbe,
                   stage>>

\* extractors.js:390  await page.waitForTimeout(500)
MobileWait ==
    /\ pc = "mobileWait"
    /\ UNCHANGED pureVars
    /\ \/ pc' = "mobileColors" /\ slept' = VariantWait /\ NoThrow
       \/ \E e \in ErrClass : OuterThrow(e, logged) /\ UNCHANGED slept
    /\ UNCHANGED <<opts, cliVars, browserVars, fanVars, attempts, navs, totalNavs, gotoFails,
                   thin, contentLength, passVars, stage>>

\* extractors.js:392-411  await extractColors(page), the mobile merge
MobileColors ==
    /\ pc = "mobileColors"
    /\ UNCHANGED pureVars
    /\ \/ Proceed("mobile") /\ page' = PageAfterPass(page) /\ NoThrow
       \/ \E e \in ErrClass :
          OuterThrow(e, logged) /\ UNCHANGED <<passes, activePass, stage, page>>
    /\ UNCHANGED <<opts, cliVars, browserVars, fanVars, loopVars, result, canvasProbe>>

\* the canvases, WebGL support and trimmed text lengths the canvas check can read
CanvasProbes == [canvases : {3, 4}, hasWebGL : BOOLEAN, textLength : {200, 201}]

isCanvasOnlyFromThree(probe) ==
    probe.canvases >= 3 /\ probe.hasWebGL /\ ~(probe.textLength > 200)

\* extractors.js:430-439  hasManyCanvases && hasWebGL && !hasRealContent
isCanvasOnly(probe) ==
    probe.canvases > 3 /\ probe.hasWebGL /\ ~(probe.textLength > 200)

\* extractors.js:413-427  const result = {...}: what the passes extracted
Assembled(extracted) ==
    [assembled |-> TRUE, isCanvasOnly |-> FALSE, note |-> FALSE, data |-> extracted]

\* extractors.js:441-445  if (isCanvasOnly) { result.note = ...; result.isCanvasOnly = true }
Flagged(r, flag) ==
    IF flag THEN [r EXCEPT !.note = TRUE, !.isCanvasOnly = TRUE] ELSE r

\* extractors.js:413-449  the result is assembled and the canvas-only
\* page.evaluate is awaited; with a passed browser the result is returned at once
Canvas ==
    /\ pc = "canvas"
    /\ UNCHANGED pureVars
    /\ \/ \E probe \in CanvasProbes :
          /\ canvasProbe' = probe
          /\ result' = Flagged(Assembled(passes), isCanvasOnly(probe))
          /\ pc' = IF ownBrowser THEN "closeOk" ELSE "cli_output"
          /\ NoThrow
       \/ \E e \in ErrClass : OuterThrow(e, logged) /\ UNCHANGED <<result, canvasProbe>>
    /\ UNCHANGED <<opts, cliVars, browserVars, fanVars, loopVars, page, passes, activePass,
                   stage>>

\* extractors.js:447-449  if (ownBrowser) await browser.close(); return result
CloseOk ==
    /\ pc = "closeOk"
    /\ UNCHANGED pureVars
    /\ pc' = "done"
    /\ outcome' = "success"
    /\ browser' = "closed"
    /\ closed' = closed + 1
    /\ UNCHANGED <<opts, cliVars, launched, loopVars, fanVars, passVars, stage, err,
                   logged>>

\* extractors.js:450-457  catch (error) with an own browser: await browser.close(),
\* print URL and stage, rethrow
Catch ==
    /\ pc = "catch"
    /\ UNCHANGED pureVars
    /\ browser' = "closed"
    /\ closed' = closed + 1
    /\ logged' = [logged EXCEPT !.url = TRUE, !.stage = stage]
    /\ Reject(err)
    /\ UNCHANGED <<opts, cliVars, launched, fanVars, loopVars, passVars, stage>>

\* ------------------------------------------------------------------ specification

Next ==
    \/ CliLaunch
    \/ CliInnerCatch
    \/ CliOuterCatch
    \/ CliFinish
    \/ Launch
    \/ NewContext
    \/ AddInitScript
    \/ NewPage
    \/ LoopHead
    \/ Goto
    \/ Hydrate
    \/ WaitMain
    \/ MainContentTimeout
    \/ MouseMove
    \/ Scroll
    \/ Stabilize
    \/ ReadLength
    \/ BackoffThin
    \/ BackoffErr
    \/ ExtractLogo
    \/ ExtractorDone
    \/ ExtractorFail
    \/ Join
    \/ Hover
    \/ DarkToggle
    \/ DarkEmulate
    \/ DarkWait
    \/ DarkColors
    \/ DarkButtons
    \/ DarkLinks
    \/ MobileViewport
    \/ MobileWait
    \/ MobileColors
    \/ Canvas
    \/ CloseOk
    \/ Catch

Spec == Init /\ [][Next]_vars

\* part_001:42-71  a run of the CLI: it launches the browser and passes it on, so
\* extractBranding neither launches nor closes one
InitCli == Init /\ opts.caller = "cli"

NextCli ==
    \/ CliLaunch
    \/ CliInnerCatch
    \/ CliOuterCatch
    \/ CliFinish
    \/ NewContext
    \/ AddInitScript
    \/ NewPage
    \/ LoopHead
    \/ Goto
    \/ Hydrate
    \/ WaitMain
    \/ MainContentTimeout
    \/ MouseMove
    \/ Scroll
    \/ Stabilize
    \/ ReadLength
    \/ BackoffThin
    \/ BackoffErr
    \/ ExtractLogo
    \/ ExtractorDone
    \/ ExtractorFail
    \/ Join
    \/ Hover
    \/ DarkToggle
    \/ DarkEmulate
    \/ DarkWait
    \/ DarkColors
    \/ DarkButtons
    \/ DarkLinks
    \/ MobileViewport
    \/ MobileWait
    \/ MobileColors
    \/ Canvas

\* every awaited operation settles, by returning or by throwing (a timeout
\* included), so a run that can take a step eventually takes one
CliFairSpec == InitCli /\ [][NextCli]_vars /\ WF_vars(NextCli)

\* ------------------------------------------------------------------ extractColors

\* Color strings are records: fmt is the notation, (r, g, b) the channels it
\* writes.  "rgb" and "rgba" are what getComputedStyle returns for sRGB colors,
\* "oklch" stands for a computed color in a notation the regexp does not match,
\* "hex" is #rrggbb in lower case; "HEX", "RGB", "RGBA" and "NAME" are the same
\* notations with upper-case letters, "name" is a lower-case color keyword.
Channels == {0, 10, 20}

RawColors ==
    {[fmt |-> "rgb", r |-> x, g |-> 0, b |-> 0] : x \in Channels}
    \cup {[fmt |-> "rgba", r |-> 10, g |-> 0, b |-> 0],
          [fmt |-> "oklch", r |-> 0, g |-> 0, b |-> 0]}

\* a run of `times` visible elements showing `color` with context score `weight`
Runs == [color : RawColors, times : {3, 4}, weight : {1, 3}]

MaxRuns == 3

TotalElementCounts == {10, 400}

\* elements the walk skips (712-714): head and title at least
HiddenElementCounts == {2}

Snapshots ==
    [walk : UNION {[1..n -> Runs] : n \in 0..MaxRuns},
     totalElements : TotalElementCounts,
     hiddenElements : HiddenElementCounts]

MergeThreshold == 15

Max(a, b) == IF a >= b THEN a ELSE b

\* extractors.js:616-625  normalizeColor: rgb()/rgba() become #rrggbb, anything
\* else is lower-cased
\* String.prototype.toLowerCase on a color string: "RGB(" becomes "rgb(",
\* "#AABBCC" becomes "#aabbcc", "Red" becomes "red"
toLowerCase(c) ==
    [c EXCEPT !.fmt = IF @ = "RGB" THEN "rgb"
                      ELSE IF @ = "RGBA" THEN "rgba"
                      ELSE IF @ = "HEX" THEN "hex"
                      ELSE IF @ = "NAME" THEN "name"
                      ELSE @]

\* extractors.js:617  color.match(/rgba?\((\d+),\s*(\d+),\s*(\d+)/): the regexp has no
\* i flag, so it matches the lower-case function names only
rgbaMatch(c) == c.fmt \in {"rgb", "rgba"}

normalizeColor(c) ==
    IF rgbaMatch(c)
    THEN [fmt |-> "hex", r |-> c.r, g |-> c.g, b |-> c.b]
    ELSE toLowerCase(c)

\* extractors.js:784-792  hexToRgb: null unless the string is # and six hex digits
\* of either case
hexParses(h) == h.fmt \in {"hex", "HEX"}

\* extractors.js:782-805  deltaE, squared: 999 when either color does not parse
deltaESquared(c1, c2) ==
    IF ~hexParses(c1) \/ ~hexParses(c2)
    THEN 999 * 999
    ELSE (c1.r - c2.r) * (c1.r - c2.r) + (c1.g - c2.g) * (c1.g - c2.g)
         + (c1.b - c2.b) * (c1.b - c2.b)

SimilarTight(c1, c2) == deltaESquared(c1, c2) < 5 * 5

\* extractors.js:842-843  distance < 15
Similar(c1, c2) == deltaESquared(c1, c2) < MergeThreshold * MergeThreshold

IndexOf(map, n) ==
    IF \E i \in 1..Len(map) : map[i].normalized = n
    THEN CHOOSE i \in 1..Len(map) : map[i].normalized = n
    ELSE 0

\* extractors.js:726-745  colorMap after the walk, in insertion order
RECURSIVE Accumulate(_, _)
Accumulate(walk, map) ==
    IF walk = <<>> THEN map
    ELSE LET run == Head(walk)
             n == normalizeColor(run.color)
             i == IndexOf(map, n)
         IN  Accumulate(Tail(walk),
                 IF i = 0
                 THEN Append(map, [normalized |-> n, original |-> run.color,
                                   count |-> run.times,
                                   score |-> run.times * run.weight])
                 ELSE [map EXCEPT ![i].count = @ + run.times,
                                  ![i].score = @ + run.times * run.weight])

\* extractors.js:760  Math.max(3, Math.floor(totalElements * 0.01))
Threshold(totalElements) == Max(3, totalElements \div 100)

isStructuralColorAtAnyScore(data, totalElements) ==
    data.count * 100 > 40 * totalElements

\* extractors.js:764-779  isStructuralColor: usage above 40% with score < count * 1.2
isStructuralColor(data, totalElements) ==
    /\ data.count * 100 > 40 * totalElements
    /\ 10 * data.score < 12 * data.count

\* extractors.js:808-818  the filter of the palette
Kept(data, totalElements) ==
    /\ data.count >= Threshold(totalElements)
    /\ ~isStructuralColor(data, totalElements)

TokenOfFlatConfidence(data) ==
    [color |-> data.original, normalized |-> data.normalized, count |-> data.count,
     confidence |-> "medium"]

\* extractors.js:819-826  the token made of a colorMap entry
Token(data) ==
    [color |-> data.original, normalized |-> data.normalized, count |-> data.count,
     confidence |-> IF data.score > 20 THEN "high"
                    ELSE IF data.score > 5 THEN "medium" ELSE "low"]

\* a stable insertion of t into a sequence sorted by count, descending
RECURSIVE InsertByCount(_, _)
InsertByCount(sorted, t) ==
    IF sorted = <<>> THEN <<t>>
    ELSE IF Head(sorted).count >= t.count
         THEN <<Head(sorted)>> \o InsertByCount(Tail(sorted), t)
         ELSE <<t>> \o sorted

\* extractors.js:827  .sort((a, b) => b.count - a.count), a stable sort
RECURSIVE SortByCount(_, _)
SortByCount(seq, sorted) ==
    IF seq = <<>> THEN sorted
    ELSE SortByCount(Tail(seq), InsertByCount(sorted, Head(seq)))

\* extractors.js:807-827  the candidates: filtered, mapped to tokens, sorted
Candidates(map, totalElements) ==
    SortByCount([i \in 1..Len(SelectSeq(map, LAMBDA d : Kept(d, totalElements)))
                   |-> Token(SelectSeq(map, LAMBDA d : Kept(d, totalElements))[i])],
                <<>>)

\* extractors.js:839-847  the later candidates, not merged yet, similar to pal[index]
SimilarLater(pal, index, merged) ==
    {i \in (index + 1)..Len(pal) :
        i \notin merged /\ Similar(pal[index].normalized, pal[i].normalized)}

\* extractors.js:834-852  the forEach of the deduplication: the groups formed, each
\* with the index that opened it and the indexes it absorbed
RECURSIVE DedupLoop(_, _, _, _)
DedupLoop(pal, index, merged, groups) ==
    IF index > Len(pal) THEN groups
    ELSE IF index \in merged THEN DedupLoop(pal, index + 1, merged, groups)
    ELSE DedupLoop(pal, index + 1, merged \cup SimilarLater(pal, index, merged),
                   Append(groups, [head |-> index,
                                   members |-> {index}
                                       \cup SimilarLater(pal, index, merged)]))

BestLowest(pal, members) ==
    CHOOSE m \in members :
        \A k \in members :
            pal[m].count < pal[k].count \/ (pal[m].count = pal[k].count /\ m <= k)

\* extractors.js:850  similar.sort((a, b) => b.count - a.count)[0]
Best(pal, members) ==
    CHOOSE m \in members :
        \A k \in members :
            pal[m].count > pal[k].count \/ (pal[m].count = pal[k].count /\ m <= k)

DedupedCombined(pal, groups) ==
    LET RECURSIVE CountSum(_)
        CountSum(members) ==
            IF members = {} THEN 0
            ELSE LET m == CHOOSE x \in members : TRUE
                 IN  pal[m].count + CountSum(members \ {m})
    IN  [g \in 1..Len(groups) |->
            [pal[Best(pal, groups[g].members)] EXCEPT
                !.count = CountSum(groups[g].members)]]

\* extractors.js:831-852  perceptuallyDeduped
Deduped(pal, groups) ==
    [g \in 1..Len(groups) |-> pal[Best(pal, groups[g].members)]]

\* extractors.js:613-891  extractColors evaluated on the snapshot
ExtractColors ==
    /\ colorsPc = "ready"
    /\ LET pal == Candidates(Accumulate(snapshot.walk, <<>>), snapshot.totalElements)
           groups == DedupLoop(pal, 1, {}, <<>>)
       IN  colors' = [candidates |-> pal, groups |-> groups,
                      palette |-> Deduped(pal, groups)]
    /\ colorsPc' = "extracted"
    /\ UNCHANGED <<snapshot, pipeVars, mergeVars, normVars, typoVars, navVars, domVars>>

InitColors ==
    /\ PipeIdle
    /\ DomIdle
    /\ MergeIdle
    /\ NormIdle
    /\ TypoIdle
    /\ NavIdle
    /\ snapshot \in Snapshots
    /\ colors = NoColors
    /\ colorsPc = "ready"

NextColors == ExtractColors

SpecColors == InitColors /\ [][NextColors]_vars

\* ------------------------------------------------------------------ extractColors on a large page

\* rgb(59, 130, 246) and rgb(0, 0, 0)
LargePageColors ==
    {[fmt |-> "rgb", r |-> 59, g |-> 130, b |-> 246],
     [fmt |-> "rgb", r |-> 0, g |-> 0, b |-> 0]}

\* runs whose sums land on and around 1% and 40% of a thousand elements, with
\* the weights of contextScores (extractors.js:698-707) and the default 1
LargePageRuns ==
    [color : LargePageColors, times : {9, 10, 15, 72, 81, 82, 328, 329},
     weight : {1, 2, 3}]

MaxLargePageRuns == 2

\* [visible, hidden] element counts: document.querySelectorAll("*") counts both
LargePageElements == {<<998, 2>>, <<1000, 2>>, <<1000, 100>>}

LargePageSnapshots ==
    {s \in [walk : UNION {[1..k -> LargePageRuns] : k \in 0..MaxLargePageRuns},
            totalElements : {n[1] + n[2] : n \in LargePageElements},
            hiddenElements : {n[2] : n \in LargePageElements}] :
        <<s.totalElements - s.hiddenElements, s.hiddenElements>> \in LargePageElements}

InitLargePage ==
    /\ PipeIdle
    /\ DomIdle
    /\ MergeIdle
    /\ NormIdle
    /\ TypoIdle
    /\ NavIdle
    /\ snapshot \in LargePageSnapshots
    /\ colors = NoColors
    /\ colorsPc = "ready"

SpecLargePage == InitLargePage /\ [][NextColors]_vars

\* ------------------------------------------------------------------ palette merges

\* the colors the merged pages show: #111111 written two ways, #0a1111 at
\* distance 7 from it, and #eeeeee
MergeRawColors ==
    {[fmt |-> "rgb", r |-> 17, g |-> 17, b |-> 17],
     [fmt |-> "rgba", r |-> 17, g |-> 17, b |-> 17],
     [fmt |-> "rgb", r |-> 10, g |-> 17, b |-> 17],
     [fmt |-> "rgb", r |-> 238, g |-> 238, b |-> 238]}

\* extractors.js:819-826  a token as extractColors returns it (no source field)
ExtractedToken(c) ==
    [color |-> c, normalized |-> normalizeColor(c), count |-> 3,
     confidence |-> "high", source |-> "none"]

MaxPaletteLen == 2

MaxHoverColors == 2

\* extractors.js:807-852  the palettes extractColors can return: the normalized
\* values are distinct and no two of them are similar
ExtractedPalettes ==
    {p \in UNION {[1..n -> {ExtractedToken(c) : c \in MergeRawColors}] :
                     n \in 0..MaxPaletteLen} :
        \A i, j \in 1..Len(p) :
            i < j => /\ p[i].normalized # p[j].normalized
                     /\ ~Similar(p[i].normalized, p[j].normalized)}

\* extractors.js:242-297  what the hover/focus page.evaluate can return
HoverFocusColors == UNION {[1..n -> MergeRawColors] : n \in 0..MaxHoverColors}

\* extractors.js:301  colors.palette.some(c => c.color === color)
HoverIsDuplicate(pal, color) == \E i \in 1..Len(pal) : pal[i].color = color

\* extractors.js:304-311  the normalization written out in the hover merge
hoverNormalized(color) ==
    IF rgbaMatch(color)
    THEN [fmt |-> "hex", r |-> color.r, g |-> color.g, b |-> color.b]
    ELSE toLowerCase(color)

\* extractors.js:313-319  the token pushed for a hover/focus color
HoverToken(color) ==
    [color |-> color, normalized |-> hoverNormalized(color), count |-> 1,
     confidence |-> "medium", source |-> "hover/focus"]

\* extractors.js:300-321  hoverFocusColors.forEach(...)
RECURSIVE HoverMerge(_, _)
HoverMerge(pal, hoverColors) ==
    IF hoverColors = <<>> THEN pal
    ELSE HoverMerge(IF HoverIsDuplicate(pal, Head(hoverColors))
                    THEN pal
                    ELSE Append(pal, HoverToken(Head(hoverColors))),
                    Tail(hoverColors))

VariantIsDuplicateNever(mp, variantColor) == FALSE

\* extractors.js:359-362 and 397-399  existingColor.normalized === darkColor.normalized
VariantIsDuplicate(mp, variantColor) ==
    \E i \in 1..Len(mp) : mp[i].normalized = variantColor.normalized

\* extractors.js:356-367 and 395-404  the forEach of a variant palette
RECURSIVE VariantMerge(_, _, _)
VariantMerge(mp, variantPalette, src) ==
    IF variantPalette = <<>> THEN mp
    ELSE VariantMerge(IF VariantIsDuplicate(mp, Head(variantPalette))
                      THEN mp
                      ELSE Append(mp, [Head(variantPalette) EXCEPT !.source = src]),
                      Tail(variantPalette), src)

\* extractors.js:299-321  the hover/focus colors are merged into colors.palette
MergeHover ==
    /\ mergePc = "baseline"
    /\ \E hoverColors \in HoverFocusColors :
        /\ mergeInput' = hoverColors
        /\ mergedPalette' = HoverMerge(mergedPalette, hoverColors)
    /\ mergePrev' = mergedPalette
    /\ mergePc' = "hover"
    /\ UNCHANGED <<pipeVars, colorVars, normVars, typoVars, navVars, domVars>>

\* extractors.js:326, 351-369  the dark-mode palette is merged into colors.palette
MergeDark ==
    /\ mergePc = "hover"
    /\ opts.darkMode
    /\ \E darkModeColors \in ExtractedPalettes :
        /\ mergeInput' = darkModeColors
        /\ mergedPalette' = VariantMerge(mergedPalette, darkModeColors, "dark-mode")
    /\ mergePrev' = mergedPalette
    /\ mergePc' = "dark"
    /\ UNCHANGED <<pipeVars, colorVars, normVars, typoVars, navVars, domVars>>

\* extractors.js:382, 392-406  the mobile palette is merged into colors.palette
MergeMobile ==
    /\ mergePc = (IF opts.darkMode THEN "dark" ELSE "hover")
    /\ opts.mobile
    /\ \E mobileColors \in ExtractedPalettes :
        /\ mergeInput' = mobileColors
        /\ mergedPalette' = VariantMerge(mergedPalette, mobileColors, "mobile")
    /\ mergePrev' = mergedPalette
    /\ mergePc' = "mobile"
    /\ UNCHANGED <<pipeVars, colorVars, normVars, typoVars, navVars, domVars>>

\* extractors.js:206-218  colors is what the baseline extractColors returned
InitMerge ==
    /\ \E o \in Options : o.caller = "lib" /\ PipeInit(o)
    /\ DomIdle
    /\ ColorIdle
    /\ NormIdle
    /\ TypoIdle
    /\ NavIdle
    /\ mergePrev = <<>>
    /\ mergeInput = <<>>
    /\ mergedPalette \in ExtractedPalettes
    /\ mergePc = "baseline"

NextMerge ==
    \/ MergeHover
    \/ MergeDark
    \/ MergeMobile

SpecMerge == InitMerge /\ [][NextMerge]_vars

\* ------------------------------------------------------------------ normalizeColor

\* color strings normalizeColor is called with: computed colors (716-717) and
\* the values of CSS custom properties as their author wrote them (669, 859)
ColorStrings ==
    [fmt : {"rgb", "rgba", "RGB", "RGBA", "hex", "HEX", "name", "NAME", "oklch"},
     r : {10, 255}, g : {0, 17}, b : {0, 238}]

MaxNormalizeCalls == 2

\* extractors.js:616-625  normalizeColor applied to the result of the last call
Normalize ==
    /\ normTrace # <<>>
    /\ Len(normTrace) <= MaxNormalizeCalls
    /\ normTrace' = Append(normTrace, normalizeColor(normTrace[Len(normTrace)]))
    /\ UNCHANGED <<pipeVars, colorVars, mergeVars, typoVars, navVars, domVars>>

InitNormalize ==
    /\ PipeIdle
    /\ DomIdle
    /\ ColorIdle
    /\ MergeIdle
    /\ TypoIdle
    /\ NavIdle
    /\ \E c \in ColorStrings : normTrace = <<c>>

NextNormalize == Normalize

SpecNormalize == InitNormalize /\ [][NextNormalize]_vars

\* ------------------------------------------------------------------ extractTypography

\* computed font properties; a string is the sequence of its pieces
Fonts ==
    {[fontFamily |-> <<"Inter">>, fontSize |-> <<"16px">>, fontWeight |-> <<"400">>,
      fontStyle |-> <<"normal">>],
     [fontFamily |-> <<"Georgia">>, fontSize |-> <<"16px">>, fontWeight |-> <<"400">>,
      fontStyle |-> <<"normal">>],
     [fontFamily |-> <<"Inter">>, fontSize |-> <<"32px">>, fontWeight |-> <<"400">>,
      fontStyle |-> <<"normal">>],
     [fontFamily |-> <<"Inter">>, fontSize |-> <<"16px">>, fontWeight |-> <<"700">>,
      fontStyle |-> <<"normal">>],
     [fontFamily |-> <<"Inter">>, fontSize |-> <<"16px">>, fontWeight |-> <<"400">>,
      fontStyle |-> <<"italic">>]}

\* extractors.js:916-929  elements matched by the selectors: a heading or a
\* paragraph without class or role, hidden or not
SampledElements == [tagName : {"h1", "p"}, hidden : BOOLEAN, computed : Fonts]

MaxTypoElements == 3

TypoKeyWithTag(el) ==
    <<el.tagName, "-">> \o el.computed.fontFamily \o <<"-">> \o el.computed.fontSize
    \o <<"-">> \o el.computed.fontWeight \o <<"-">> \o el.computed.fontStyle

\* extractors.js:939  `${fontFamily}-${fontSize}-${fontWeight}-${fontStyle}`
TypoKey(el) ==
    el.computed.fontFamily \o <<"-">> \o el.computed.fontSize \o <<"-">>
    \o el.computed.fontWeight \o <<"-">> \o el.computed.fontStyle

\* extractors.js:943-961  high for headings, buttons, links; medium otherwise
TypoConfidence(el) == IF el.tagName \in {"h1", "button", "a"} THEN "high" ELSE "medium"

\* extractors.js:980-994  the context label: the tag name of an element that has
\* neither a class nor a role
ContextLabel(el) == el.tagName

StyleIndex(styles, key) ==
    IF \E i \in 1..Len(styles) : styles[i].key = key
    THEN CHOOSE i \in 1..Len(styles) : styles[i].key = key
    ELSE 0

\* extractors.js:963-975  styles.set(key, {...})
NewStyle(el) ==
    [key |-> TypoKey(el), fontFamily |-> el.computed.fontFamily,
     fontSize |-> el.computed.fontSize, fontWeight |-> el.computed.fontWeight,
     fontStyle |-> el.computed.fontStyle, contexts |-> <<>>,
     confidence |-> TypoConfidence(el)]

AddContextAlways(style, label) == [style EXCEPT !.contexts = Append(@, label)]

\* extractors.js:996-998  push the label unless the cluster has it
AddContext(style, label) ==
    IF \E i \in 1..Len(style.contexts) : style.contexts[i] = label
    THEN style
    ELSE [style EXCEPT !.contexts = Append(@, label)]

\* extractors.js:931-999  elements.forEach((el) => ...)
RECURSIVE Cluster(_, _)
Cluster(elements, styles) ==
    IF elements = <<>> THEN styles
    ELSE LET el == Head(elements)
             withKey == IF StyleIndex(styles, TypoKey(el)) = 0
                        THEN Append(styles, NewStyle(el))
                        ELSE styles
             i == StyleIndex(withKey, TypoKey(el))
         IN  IF el.hidden
             THEN Cluster(Tail(elements), styles)
             ELSE Cluster(Tail(elements),
                          [withKey EXCEPT ![i] = AddContext(@, ContextLabel(el))])

\* extractors.js:897-1002  extractTypography evaluated on the page
ExtractTypography ==
    /\ typoPc = "ready"
    /\ typoStyles' = Cluster(typoElements, <<>>)
    /\ typoPc' = "extracted"
    /\ UNCHANGED <<typoElements, pipeVars, colorVars, mergeVars, normVars, navVars, domVars>>

InitTypography ==
    /\ PipeIdle
    /\ DomIdle
    /\ ColorIdle
    /\ MergeIdle
    /\ NormIdle
    /\ NavIdle
    /\ typoElements \in UNION {[1..n -> SampledElements] : n \in 0..MaxTypoElements}
    /\ typoStyles = <<>>
    /\ typoPc = "ready"

NextTypography == ExtractTypography

SpecTypography == InitTypography /\ [][NextTypography]_vars

\* ------------------------------------------------------------------ navigation timeout

DefaultNavigationTimeout == 20000

CliNavigationTimeout == 90000

MaxTimeoutSeconds == 40

\* navigationTimeout values a caller of the library passes: none, 0, or seconds
NavigationTimeouts == {Unset} \cup {1000 * k : k \in 0..MaxTimeoutSeconds}

\* part_001:64-70  the options the CLI action hands to extractBranding
CliOptions(slow) ==
    [caller |-> "cli", navigationTimeout |-> CliNavigationTimeout, slow |-> slow]

\* extractors.js:89  options.navigationTimeout || 20000
GotoTimeout(options) ==
    IF options.navigationTimeout = Unset \/ options.navigationTimeout = 0
    THEN DefaultNavigationTimeout
    ELSE options.navigationTimeout

\* part_001:64-70  the CLI action calls extractBranding
CliCallsExtract ==
    /\ navPc = "cli"
    /\ navOptions' = CliOptions(navOptions.slow)
    /\ navPc' = "called"
    /\ UNCHANGED <<navTimeout, pipeVars, colorVars, mergeVars, normVars, typoVars, domVars>>

\* extractors.js:87-90  page.goto(url, { ..., timeout })
GotoWithTimeout ==
    /\ navPc = "called"
    /\ navTimeout' = GotoTimeout(navOptions)
    /\ navPc' = "navigated"
    /\ UNCHANGED <<navOptions, pipeVars, colorVars, mergeVars, normVars, typoVars, domVars>>

\* the CLI started with or without --slow, or the library called with options
InitTimeout ==
    /\ PipeIdle
    /\ DomIdle
    /\ ColorIdle
    /\ MergeIdle
    /\ NormIdle
    /\ TypoIdle
    /\ navTimeout = -1
    /\ \/ /\ navPc = "cli"
          /\ \E slow \in BOOLEAN :
                navOptions = [caller |-> "cli", navigationTimeout |-> Unset, slow |-> slow]
       \/ /\ navPc = "called"
          /\ navOptions \in [caller : {"lib"}, navigationTimeout : NavigationTimeouts,
                             slow : BOOLEAN]

NextTimeout ==
    \/ CliCallsExtract
    \/ GotoWithTimeout

SpecTimeout == InitTimeout /\ [][NextTimeout]_vars

\* ------------------------------------------------------------------ style sheets: hover/focus pass, breakpoints

NoColor == [fmt |-> "none", r |-> 0, g |-> 0, b |-> 0]

\* CSS rules: a :hover rule whose base selector matches every interactive
\* element, a :focus rule whose base selector makes el.matches throw, a :hover
\* rule that matches none of them, and a media rule with two pixel values
StyleRules ==
    {[type |-> "style", pseudo |-> "hover", selector |-> "matches",
      color |-> [fmt |-> "rgb", r |-> 17, g |-> 17, b |-> 17], px |-> <<>>],
     [type |-> "style", pseudo |-> "focus", selector |-> "invalid",
      color |-> [fmt |-> "rgb", r |-> 238, g |-> 238, b |-> 238], px |-> <<>>],
     [type |-> "style", pseudo |-> "hover", selector |-> "nomatch",
      color |-> [fmt |-> "rgb", r |-> 10, g |-> 17, b |-> 17], px |-> <<>>],
     [type |-> "media", pseudo |-> "none", selector |-> "none", color |-> NoColor,
      px |-> <<1024, 480>>]}

\* the rule lists of a sheet: no rule, one rule, or a rule after the throwing one
RuleLists ==
    {<<>>} \cup {<<r>> : r \in StyleRules}
    \cup {<<r1, r2>> : r1 \in {r \in StyleRules : r.selector = "invalid"}, r2 \in StyleRules}

\* a sheet is cross-origin (reading its cssRules throws) or lists its rules
Sheets ==
    {[crossOrigin |-> TRUE, rules |-> <<>>]}
    \cup {[crossOrigin |-> FALSE, rules |-> rl] : rl \in RuleLists}

MaxSheets == 2

InteractiveCounts == {2, 51}

HoverElementLimit == 50

\* extractors.js:247  if (index > 50) return, index counted from 0
Inspected(index) == ~(index > HoverElementLimit)

\* extractors.js:276-281  hoverColors.push({color, property, state, element}); the
\* element is recorded by its place in document order, counted from 1
HoverEntry(place, rule) ==
    [color |-> rule.color, property |-> "color", state |-> rule.pseudo,
     element |-> place]

AfterSelectorErrorDropRest(rest) == <<>>

\* extractors.js:285-287  catch (e) { }: the forEach goes on with the next rule
AfterSelectorError(rest) == rest

\* extractors.js:260-289  rules.forEach(rule => ...) for the element at `place`
RECURSIVE RulesWalk(_, _, _)
RulesWalk(place, rules, found) ==
    IF rules = <<>> THEN found
    ELSE LET rule == Head(rules)
         IN  IF rule.type # "style" \/ rule.pseudo = "none"
             THEN RulesWalk(place, Tail(rules), found)
             ELSE IF rule.selector = "invalid"
             THEN RulesWalk(place, AfterSelectorError(Tail(rules)), found)
             ELSE IF rule.selector = "matches"
             THEN RulesWalk(place, Tail(rules), Append(found, HoverEntry(place, rule)))
             ELSE RulesWalk(place, Tail(rules), found)

\* extractors.js:256-293  sheets.forEach(sheet => { try {...} catch (e) { } })
RECURSIVE SheetsWalk(_, _, _)
SheetsWalk(place, sheets, found) ==
    IF sheets = <<>> THEN found
    ELSE SheetsWalk(place, Tail(sheets),
                    IF Head(sheets).crossOrigin
                    THEN found
                    ELSE RulesWalk(place, Head(sheets).rules, found))

\* extractors.js:246-294  interactiveElements.forEach((el, index) => ...)
RECURSIVE ElementsWalk(_, _, _)
ElementsWalk(place, count, sheets) ==
    IF place > count THEN <<>>
    ELSE (IF Inspected(place - 1) THEN SheetsWalk(place, sheets, <<>>) ELSE <<>>)
         \o ElementsWalk(place + 1, count, sheets)

\* extractors.js:1199-1204  the pixel values of the media rules of one sheet
RECURSIVE MediaPx(_)
MediaPx(rules) ==
    IF rules = <<>> THEN {}
    ELSE (IF Head(rules).type = "media"
          THEN {Head(rules).px[k] : k \in 1..Len(Head(rules).px)}
          ELSE {}) \cup MediaPx(Tail(rules))

\* extractors.js:1197-1208  for (const sheet of document.styleSheets) { try ... catch }
RECURSIVE BreakpointSet(_)
BreakpointSet(sheets) ==
    IF sheets = <<>> THEN {}
    ELSE (IF Head(sheets).crossOrigin THEN {} ELSE MediaPx(Head(sheets).rules))
         \cup BreakpointSet(Tail(sheets))

\* extractors.js:1210-1212  Array.from(breakpoints).sort((a, b) => a - b)
RECURSIVE SortAscending(_)
SortAscending(set) ==
    IF set = {} THEN <<>>
    ELSE LET least == CHOOSE x \in set : \A y \in set : x <= y
         IN  <<least>> \o SortAscending(set \ {least})

\* extractors.js:1193-1214  extractBreakpoints, one of the fan-out extractors
ExtractBreakpoints ==
    /\ stylePc = "ready"
    /\ breakpoints' = SortAscending(BreakpointSet(styleSheets))
    /\ stylePc' = "breakpoints"
    /\ UNCHANGED <<styleSheets, interactive, hoverFound>>
    /\ UNCHANGED <<pipeVars, colorVars, mergeVars, normVars, typoVars, navVars, cssVars,
                   componentVars>>

\* extractors.js:242-297  the hover/focus page.evaluate
HoverPass ==
    /\ stylePc = "breakpoints"
    /\ hoverFound' = ElementsWalk(1, interactive, styleSheets)
    /\ stylePc' = "hover"
    /\ UNCHANGED <<styleSheets, interactive, breakpoints>>
    /\ UNCHANGED <<pipeVars, colorVars, mergeVars, normVars, typoVars, navVars, cssVars,
                   componentVars>>

InitStyles ==
    /\ PipeIdle
    /\ ColorIdle
    /\ MergeIdle
    /\ NormIdle
    /\ TypoIdle
    /\ NavIdle
    /\ CssIdle
    /\ ComponentIdle
    /\ styleSheets \in UNION {[1..n -> Sheets] : n \in 0..MaxSheets}
    /\ interactive \in InteractiveCounts
    /\ hoverFound = <<>>
    /\ breakpoints = <<>>
    /\ stylePc = "ready"

NextStyles ==
    \/ ExtractBreakpoints
    \/ HoverPass

SpecStyles == InitStyles /\ [][NextStyles]_vars

\* ------------------------------------------------------------------ extractColors: CSS variables

\* values of custom properties as their author wrote them: rgb(17, 17, 17),
\* RGB(17, 17, 17), #0A1111, #eeeeee and rgb(238, 238, 238)
CssVariableValues ==
    {[fmt |-> "rgb", r |-> 17, g |-> 17, b |-> 17],
     [fmt |-> "RGB", r |-> 17, g |-> 17, b |-> 17],
     [fmt |-> "HEX", r |-> 10, g |-> 17, b |-> 17],
     [fmt |-> "hex", r |-> 238, g |-> 238, b |-> 238],
     [fmt |-> "rgb", r |-> 238, g |-> 238, b |-> 238]}

MaxCssVariables == 3

\* extractors.js:858  Object.entries(cssVariables): the property names are the
\* places in declaration order
CssEntries(values) == [k \in 1..Len(values) |-> [prop |-> k, value |-> values[k]]]

\* extractors.js:861-874  already in the palette, or within 15 of a palette token
CssIsDuplicate(pal, normalized) ==
    \/ \E i \in 1..Len(pal) : pal[i].normalized = normalized
    \/ \E i \in 1..Len(pal) : Similar(normalized, pal[i].normalized)

\* extractors.js:876-879  cssVarsByColor.set / .vars.push(prop)
CssAdd(byColor, normalized, entry) ==
    IF \E k \in 1..Len(byColor) : byColor[k].normalized = normalized
    THEN LET k == CHOOSE j \in 1..Len(byColor) : byColor[j].normalized = normalized
         IN  [byColor EXCEPT ![k].vars = Append(@, entry.prop)]
    ELSE Append(byColor, [normalized |-> normalized, value |-> entry.value,
                          vars |-> <<entry.prop>>])

\* extractors.js:858-880  Object.entries(cssVariables).forEach(...)
RECURSIVE CssVarsByColor(_, _, _)
CssVarsByColor(entries, pal, byColor) ==
    IF entries = <<>> THEN byColor
    ELSE LET normalized == normalizeColor(Head(entries).value)
         IN  CssVarsByColor(Tail(entries), pal,
                            IF CssIsDuplicate(pal, normalized)
                            THEN byColor
                            ELSE CssAdd(byColor, normalized, Head(entries)))

\* extractors.js:882-887  filteredCssVariables[vars[0]] = value
FilteredCssVariables(byColor) ==
    [k \in 1..Len(byColor) |-> [prop |-> byColor[k].vars[1], value |-> byColor[k].value]]

\* extractors.js:854-889  the CSS variable filter of extractColors
FilterCssVariables ==
    /\ cssPc = "ready"
    /\ cssFiltered' = FilteredCssVariables(
                          CssVarsByColor(CssEntries(cssDeclared), cssPalette, <<>>))
    /\ cssPc' = "filtered"
    /\ UNCHANGED <<cssDeclared, cssPalette>>
    /\ UNCHANGED <<pipeVars, colorVars, mergeVars, normVars, typoVars, navVars, styleVars,
                   componentVars>>

InitCssVariables ==
    /\ PipeIdle
    /\ ColorIdle
    /\ MergeIdle
    /\ NormIdle
    /\ TypoIdle
    /\ NavIdle
    /\ StyleIdle
    /\ ComponentIdle
    /\ cssDeclared \in UNION {[1..n -> CssVariableValues] : n \in 0..MaxCssVariables}
    /\ cssPalette \in ExtractedPalettes
    /\ cssFiltered = <<>>
    /\ cssPc = "ready"

NextCssVariables == FilterCssVariables

SpecCssVariables == InitCssVariables /\ [][NextCssVariables]_vars

\* ------------------------------------------------------------------ component styles: buttons, inputs, links

\* how the computed styles vary along a list of matched elements: all alike,
\* all different, alike in the first property and different in the second, or
\* alike but for the last element
StylePatterns == {"same", "distinct", "secondOnly", "lastDiffers"}

ElementCounts == {3, 11, 21}

\* the values of two computed properties of the element at `place` of `count`
FirstProperty(pattern, place, count) ==
    IF pattern = "distinct" THEN place
    ELSE IF pattern = "lastDiffers" /\ place = count THEN 1
    ELSE 0

SecondProperty(pattern, place, count) ==
    IF pattern \in {"distinct", "secondOnly"} THEN place ELSE 0

\* extractors.js:1103-1105  the matched buttons with their computed styles
ButtonElements(pattern, count) ==
    [i \in 1..count |->
        [tagName |-> IF i = 1 THEN "BUTTON" ELSE "A",
         backgroundColor |-> FirstProperty(pattern, i, count),
         padding |-> SecondProperty(pattern, i, count)]]

\* extractors.js:1135-1137  the matched form fields with their computed styles
InputElements(pattern, count) ==
    [i \in 1..count |->
        [tagName |-> "INPUT",
         border |-> FirstProperty(pattern, i, count),
         padding |-> SecondProperty(pattern, i, count)]]

\* extractors.js:1168  the anchors with their computed styles
LinkElements(pattern, count) ==
    [i \in 1..count |->
        [color |-> FirstProperty(pattern, i, count),
         textDecoration |-> "none",
         fontWeight |-> SecondProperty(pattern, i, count)]]

ButtonSampleLimit == 10

InputStyleLimit == 8

LinkSampleLimit == 20

LinkStyleLimit == 8

\* Array.prototype.slice(0, n)
Slice(seq, n) == SubSeq(seq, 1, IF Len(seq) < n THEN Len(seq) ELSE n)

\* the elements of seq at the given places, in the order of seq
AtPlaces(seq, places) ==
    LET order == SortAscending(places)
    IN  [k \in 1..Len(order) |-> seq[order[k]]]

\* extractors.js:1110-1120  the style record of a button
ButtonStyle(btn) ==
    [backgroundColor |-> btn.backgroundColor, padding |-> btn.padding,
     confidence |-> IF btn.tagName = "BUTTON" THEN "high" ELSE "medium"]

\* extractors.js:1124-1125  arr.findIndex((b) => b.backgroundColor === btn.backgroundColor)
ButtonFindIndex(arr, btn) ==
    CHOOSE j \in 1..Len(arr) :
        /\ arr[j].backgroundColor = btn.backgroundColor
        /\ \A h \in 1..(j - 1) : arr[h].backgroundColor # btn.backgroundColor

\* extractors.js:1107-1126  buttons.slice(0, 10).map(...).filter(...)
ButtonStyles(buttons) ==
    LET arr == [i \in 1..Len(Slice(buttons, ButtonSampleLimit)) |-> ButtonStyle(buttons[i])]
    IN  AtPlaces(arr, {i \in 1..Len(arr) : ButtonFindIndex(arr, arr[i]) = i})

\* extractors.js:1143  `${tag}-${border}-${borderRadius}-${padding}`
InputKey(input) == <<input.tagName, input.border, input.padding>>

\* extractors.js:1141-1157  inputs.forEach: the key of every input
InputKeys(inputs) == [i \in 1..Len(inputs) |-> InputKey(inputs[i])]

\* extractors.js:1173  `${color}-${textDecoration}`
LinkKey(link) == <<link.color, link.textDecoration>>

\* extractors.js:1171-1185  links.slice(0, 20).forEach: the key of every sampled link
LinkKeys(links) == [i \in 1..Len(links) |-> LinkKey(links[i])]

\* extractors.js:1139-1157, 1172-1185  uniqueStyles: the first element of every key, in
\* insertion order
UniqueStyles(els, keys) ==
    AtPlaces(els, {i \in 1..Len(els) : \A j \in 1..(i - 1) : keys[j] # keys[i]})

\* extractors.js:1101-1128  extractButtonStyles
ExtractButtonStyles ==
    /\ componentsDone # {}
    /\ "buttons" \notin componentsDone
    /\ components' = [components EXCEPT !.buttons = ButtonStyles(buttonEls)]
    /\ componentsDone' = componentsDone \cup {"buttons"}
    /\ UNCHANGED <<buttonEls, inputEls, linkEls>>
    /\ UNCHANGED <<pipeVars, colorVars, mergeVars, normVars, typoVars, navVars, styleVars,
                   cssVars>>

\* extractors.js:1133-1161  extractInputStyles
ExtractInputStyles ==
    /\ componentsDone # {}
    /\ "inputs" \notin componentsDone
    /\ components' = [components EXCEPT
                         !.inputs = Slice(UniqueStyles(inputEls, InputKeys(inputEls)),
                                          InputStyleLimit)]
    /\ componentsDone' = componentsDone \cup {"inputs"}
    /\ UNCHANGED <<buttonEls, inputEls, linkEls>>
    /\ UNCHANGED <<pipeVars, colorVars, mergeVars, normVars, typoVars, navVars, styleVars,
                   cssVars>>

\* extractors.js:1166-1188  extractLinkStyles
ExtractLinkStyles ==
    /\ componentsDone # {}
    /\ "links" \notin componentsDone
    /\ components' = [components EXCEPT
                         !.links =
                             Slice(UniqueStyles(Slice(linkEls, LinkSampleLimit),
                                                LinkKeys(Slice(linkEls, LinkSampleLimit))),
                                   LinkStyleLimit)]
    /\ componentsDone' = componentsDone \cup {"links"}
    /\ UNCHANGED <<buttonEls, inputEls, linkEls>>
    /\ UNCHANGED <<pipeVars, colorVars, mergeVars, normVars, typoVars, navVars, styleVars,
                   cssVars>>

\* the page is loaded: componentsDone holds "page" once the three lists exist
InitComponents ==
    /\ PipeIdle
    /\ ColorIdle
    /\ MergeIdle
    /\ NormIdle
    /\ TypoIdle
    /\ NavIdle
    /\ StyleIdle
    /\ CssIdle
    /\ \E p \in StylePatterns, n \in ElementCounts : buttonEls = ButtonElements(p, n)
    /\ \E p \in StylePatterns, n \in ElementCounts : inputEls = InputElements(p, n)
    /\ \E p \in StylePatterns, n \in ElementCounts : linkEls = LinkElements(p, n)
    /\ components = NoComponents
    /\ componentsDone = {"page"}

NextComponents ==
    \/ ExtractButtonStyles
    \/ ExtractInputStyles
    \/ ExtractLinkStyles

SpecComponents == InitComponents /\ [][NextComponents]_vars

\* ------------------------------------------------------------------ claims

SetupPcs == {"newContext", "addInitScript", "newPage"}

LoopPcs == {"loopHead", "goto", "hydrate", "waitMain", "mainTimeout", "mouse", "scroll", "stabilize",
            "readLength", "backoffThin", "backoffErr"}

DarkPcs == {"darkToggle", "darkEmulate", "darkWait", "darkColors", "darkButtons",
            "darkLinks"}

MobilePcs == {"mobileViewport", "mobileWait", "mobileColors"}

\* the attempt loop has ended and the call goes on to extract
ExtractionPcs == {"extractLogo", "join", "hover", "canvas", "closeOk", "cli_output"}
                 \cup DarkPcs \cup MobilePcs

PassRank(p) ==
    IF p = "hover" THEN 1 ELSE IF p = "dark" THEN 2 ELSE IF p = "mobile" THEN 3 ELSE 4

\* C1: one call of extractBranding navigates the page at most 2 times, whatever
\* mix of navigation errors and too-thin pages its attempts meet.
C1_AtMostTwoNavigations == navs <= 2 /\ attempts <= 2

\* C1 witness: a call that navigated twice, once after a navigation error mixed
\* with a too-thin page on the other attempt.
C1_Witness == navs = 2 /\ gotoFails = 1 /\ thin = 1

\* C2: when page.goto throws on both attempts the call raises the error with the
\* attempt count 2 and the URL printed (and the stage once the outer catch ran),
\* has navigated exactly twice, started no extractor and returns no result.
C2_NavigationFailsTwice ==
    gotoFails = 2 =>
        /\ err \in ErrClass
        /\ logged.attempts = 2
        /\ logged.url
        /\ pc # "catch" => logged.stage = "Navigating (attempt 2/2)..."
        /\ navs = 2
        /\ pc \notin LoopPcs \cup ExtractionPcs
        /\ started = {}
        /\ passes = <<>>
        /\ result = NoResult
        /\ outcome # "success"

\* C2 witness: a library call that failed after two network errors of page.goto.
C2_Witness ==
    /\ gotoFails = 2
    /\ err = "net::ERR_"
    /\ outcome = "failed"
    /\ logged = [attempts |-> 2, url |-> TRUE, stage |-> "Navigating (attempt 2/2)..."]

\* C3 (as claimed): when the text length is not above 500 on every attempt of the
\* budget, the run fails: no extractor is started and no result is returned.
C3_ThinTwiceFails ==
    thin = maxAttempts =>
        /\ started = {}
        /\ result = NoResult
        /\ outcome # "success"

\* C4 (as claimed): the attempt loop ends in success, that is the call goes on to
\* extract, only on a text length above 500; a length of 500 or less never does.
C4_SuccessOnlyAbove500 ==
    pc \in ExtractionPcs => contentLength > 500

C6_AllBrowsersClosed == pc = "done" => closed = launched

\* C7: the hover/focus pass, the variant passes and the result assembly begin only
\* when all eleven extractors have resolved, and the extractors are started only
\* after the attempt loop has ended.
C7_FanOutIsJoin ==
    /\ (passes # <<>> \/ activePass # "none" \/ result # NoResult) =>
           (done = Extractors /\ Cardinality(done) = 11)
    /\ pc \in {"hover", "canvas"} \cup DarkPcs \cup MobilePcs => running = {}
    /\ started # {} => pc \notin SetupPcs \cup LoopPcs
    /\ pc \in SetupPcs \cup LoopPcs => done = {}

\* C7 witness: every pass has begun after the eleven extractors resolved.
C7_Witness ==
    /\ passes = <<"hover", "dark", "mobile", "assemble">>
    /\ done = Extractors
    /\ result # NoResult

\* C8: the dark-mode and the mobile pass begin only after the fan-out and the
\* hover/focus pass have completed, dark-mode has finished before mobile begins,
\* and theme and viewport change only when no baseline extractor is running.
C8_VariantsSequential ==
    /\ page # FreshPage => (running = {} /\ done = Extractors)
    /\ activePass \in {"dark", "mobile"} =>
           (done = Extractors /\ passes[1] = "hover")
    /\ \A i, j \in 1..Len(passes) : i < j => PassRank(passes[i]) < PassRank(passes[j])
    /\ pc \in DarkPcs =>
           /\ activePass = "dark"
           /\ page.viewport = "desktop"
           /\ passes = <<"hover", "dark">>
    /\ pc \in MobilePcs =>
           /\ activePass = "mobile"
           /\ opts.darkMode =>
                (page.themeAttrs /\ page.colorScheme = "dark"
                 /\ passes = <<"hover", "dark", "mobile">>)
    /\ activePass = "hover" => page = FreshPage

\* C8 witness: the mobile pass running on a page the finished dark pass mutated.
C8_Witness ==
    /\ pc = "mobileColors"
    /\ page = [themeAttrs |-> TRUE, colorScheme |-> "dark", viewport |-> "mobile"]
    /\ passes = <<"hover", "dark", "mobile">>


\* ---- claims about extractColors (SpecColors)

Extracted == colorsPc = "extracted"

CandidateIndexes == 1..Len(colors.candidates)

PaletteIndexes == 1..Len(colors.palette)

\* Euclidean RGB distance below 15 between two normalized values that parse
Near(n1, n2) ==
    /\ n1.fmt = "hex"
    /\ n2.fmt = "hex"
    /\ (n1.r - n2.r) * (n1.r - n2.r) + (n1.g - n2.g) * (n1.g - n2.g)
       + (n1.b - n2.b) * (n1.b - n2.b) < 15 * 15

NearPairs ==
    {p \in CandidateIndexes \X CandidateIndexes :
        /\ p[1] < p[2]
        /\ Near(colors.candidates[p[1]].normalized, colors.candidates[p[2]].normalized)}

GroupsOf(i) == {g \in 1..Len(colors.groups) : i \in colors.groups[g].members}

\* the palette token that stands for candidate i
RepOf(i) == colors.palette[CHOOSE g \in GroupsOf(i) : TRUE]

InPalette(t) == \E k \in PaletteIndexes : colors.palette[k] = t

\* C9 (as stated): any two candidates at RGB distance < 15 are stood for by one
\* and the same palette token, and that token is the higher-count one of the two.
C9_NearPairCollapsesToHigherCount ==
    Extracted =>
        \A p \in NearPairs :
            /\ RepOf(p[1]) = RepOf(p[2])
            /\ RepOf(p[1]) \in {colors.candidates[p[1]], colors.candidates[p[2]]}
            /\ RepOf(p[1]).count
                 = Max(colors.candidates[p[1]].count, colors.candidates[p[2]].count)

\* C9 (amended): every candidate is stood for by exactly one palette token, which
\* is the candidate itself or a candidate at RGB distance < 15 from it, with a
\* count at least its own; of two candidates at distance < 15 at most one is a
\* palette token; and when the higher-ranked of the two is a palette token and no
\* other palette token is within distance 15 of the lower-ranked one, that
\* higher-ranked candidate is the one token standing for both.
C9_GreedyCollapse ==
    Extracted =>
        /\ \A i \in CandidateIndexes :
            /\ Cardinality(GroupsOf(i)) = 1
            /\ RepOf(i) \in {colors.candidates[k] : k \in CandidateIndexes}
            /\ \/ RepOf(i) = colors.candidates[i]
               \/ Near(RepOf(i).normalized, colors.candidates[i].normalized)
            /\ RepOf(i).count >= colors.candidates[i].count
        /\ \A p \in NearPairs :
            /\ ~(InPalette(colors.candidates[p[1]]) /\ InPalette(colors.candidates[p[2]]))
            /\ (/\ InPalette(colors.candidates[p[1]])
                /\ \A k \in PaletteIndexes :
                      Near(colors.palette[k].normalized,
                           colors.candidates[p[2]].normalized)
                        => colors.palette[k] = colors.candidates[p[1]])
               => /\ RepOf(p[1]) = colors.candidates[p[1]]
                  /\ RepOf(p[2]) = colors.candidates[p[1]]
                  /\ colors.candidates[p[1]].count >= colors.candidates[p[2]].count

\* two candidates of different counts at distance < 15 collapsed into the
\* higher-count one, next to a pair at distance < 15 that two tokens stand for
C9_Witness ==
    /\ Extracted
    /\ \E p \in NearPairs :
        /\ colors.candidates[p[1]].count > colors.candidates[p[2]].count
        /\ RepOf(p[1]) = colors.candidates[p[1]]
        /\ RepOf(p[2]) = colors.candidates[p[1]]
    /\ \E p \in NearPairs : RepOf(p[1]) # RepOf(p[2])

\* C10: every two distinct palette tokens whose normalized values parse as
\* 6-digit hex are at Euclidean RGB distance >= 15.
C10_PaletteSeparated ==
    Extracted =>
        \A k1, k2 \in PaletteIndexes :
            k1 # k2 =>
                /\ colors.palette[k1].normalized # colors.palette[k2].normalized
                /\ ~Near(colors.palette[k1].normalized, colors.palette[k2].normalized)

\* a palette of two hex tokens left by a deduplication that absorbed a candidate
C10_Witness ==
    /\ Extracted
    /\ \E k1, k2 \in PaletteIndexes :
        /\ k1 # k2
        /\ colors.palette[k1].normalized.fmt = "hex"
        /\ colors.palette[k2].normalized.fmt = "hex"
    /\ Len(colors.palette) < Len(colors.candidates)

\* ---- claims about the palette merges (SpecMerge)

\* the indexes of the tokens the last merge appended
Appended == (Len(mergePrev) + 1)..Len(mergedPalette)

NormalizedOf(pal) == [i \in 1..Len(pal) |-> pal[i].normalized]

Hex111111 == [fmt |-> "hex", r |-> 17, g |-> 17, b |-> 17]

HexEEEEEE == [fmt |-> "hex", r |-> 238, g |-> 238, b |-> 238]

\* C11: in the dark-mode merge and in the mobile merge a variant token is
\* appended only if it is at RGB distance >= 15 from every token already in the
\* merged palette.
C11_VariantMergeIsPerceptual ==
    mergePc \in {"dark", "mobile"} =>
        \A k \in Appended :
            \A j \in 1..(k - 1) :
                ~Near(mergedPalette[j].normalized, mergedPalette[k].normalized)

\* C12: a variant merge keeps every baseline token, in order, and never appends
\* a variant token whose normalized value equals that of a token already in the
\* merged palette; [#111111] merged with [#111111, #eeeeee] is exactly
\* [#111111, #eeeeee].
C12_VariantMergeKeepsBaseline ==
    mergePc \in {"dark", "mobile"} =>
        /\ Len(mergedPalette) >= Len(mergePrev)
        /\ SubSeq(mergedPalette, 1, Len(mergePrev)) = mergePrev
        /\ \A k \in Appended :
            /\ \A j \in 1..(k - 1) :
                  mergedPalette[j].normalized # mergedPalette[k].normalized
            /\ \E v \in 1..Len(mergeInput) :
                  mergedPalette[k].normalized = mergeInput[v].normalized
        /\ (/\ NormalizedOf(mergePrev) = <<Hex111111>>
            /\ NormalizedOf(mergeInput) = <<Hex111111, HexEEEEEE>>)
           => NormalizedOf(mergedPalette) = <<Hex111111, HexEEEEEE>>

\* the dark-mode merge of [#111111, #eeeeee] into [#111111]
C12_Witness ==
    /\ mergePc = "dark"
    /\ NormalizedOf(mergePrev) = <<Hex111111>>
    /\ NormalizedOf(mergeInput) = <<Hex111111, HexEEEEEE>>
    /\ Len(mergedPalette) = 2

\* C18: every token the hover/focus merge adds has confidence medium, and none
\* is added whose normalized value equals that of a token already in the
\* palette, tokens added earlier in the same merge included.
C18_HoverMergeByNormalized ==
    mergePc = "hover" =>
        \A k \in Appended :
            /\ mergedPalette[k].confidence = "medium"
            /\ \A j \in 1..(k - 1) :
                  mergedPalette[j].normalized # mergedPalette[k].normalized

\* ---- claims about normalizeColor (SpecNormalize)

\* C13: normalization is idempotent for any color string:
\* normalize(normalize(c)) = normalize(c).
C13_NormalizeIdempotent ==
    Len(normTrace) >= 3 => normTrace[3] = normTrace[2]

\* ---- claims about the filters of extractColors (SpecLargePage)

\* the normalized colors the walk met
Observed == {normalizeColor(snapshot.walk[i].color) : i \in 1..Len(snapshot.walk)}

RECURSIVE SumOver(_, _, _)
SumOver(walk, n, weighted) ==
    IF walk = <<>> THEN 0
    ELSE (IF normalizeColor(Head(walk).color) = n
          THEN (IF weighted THEN Head(walk).times * Head(walk).weight
                ELSE Head(walk).times)
          ELSE 0) + SumOver(Tail(walk), n, weighted)

\* occurrences of n over the visible elements
CountOf(n) == SumOver(snapshot.walk, n, FALSE)

\* context score accumulated for n
ScoreOf(n) == SumOver(snapshot.walk, n, TRUE)

VisibleElements == snapshot.totalElements - snapshot.hiddenElements

\* usage above 40% of the total elements with score below 1.2 x count
Structural(n) ==
    /\ CountOf(n) * 100 > 40 * snapshot.totalElements
    /\ 10 * ScoreOf(n) < 12 * CountOf(n)

PaletteHolds(n) == \E k \in PaletteIndexes : colors.palette[k].normalized = n

Hex3B82F6 == [fmt |-> "hex", r |-> 59, g |-> 130, b |-> 246]

\* C14: a normalized color is kept in the palette only if its count is at least
\* max(3, floor(0.01 x N)), N the number of visible elements; with N = 1000 a
\* count of 9 excludes the color and a count of 10 includes it when it is not
\* structural.
C14_ThresholdOverVisibleElements ==
    Extracted =>
        \A n \in Observed :
            /\ PaletteHolds(n) => CountOf(n) >= Max(3, VisibleElements \div 100)
            /\ VisibleElements = 1000 =>
                /\ CountOf(n) = 9 => ~PaletteHolds(n)
                /\ (CountOf(n) = 10 /\ ~Structural(n)) => PaletteHolds(n)

\* C15: a color used on more than 40% of the total elements is dropped as
\* structural exactly when its score is below 1.2 x its count; a color at 40%
\* usage or less is never structural.
C15_StructuralAbove40Percent ==
    Extracted =>
        \A n \in Observed :
            CountOf(n) >= Max(3, snapshot.totalElements \div 100) =>
                /\ CountOf(n) * 100 > 40 * snapshot.totalElements =>
                      (PaletteHolds(n) <=> 10 * ScoreOf(n) >= 12 * CountOf(n))
                /\ CountOf(n) * 100 <= 40 * snapshot.totalElements => PaletteHolds(n)
                /\ (/\ snapshot.totalElements = 1000
                    /\ CountOf(n) = 410
                    /\ ScoreOf(n) = 410) => ~PaletteHolds(n)

\* of a thousand elements 410 show one color with score = count: it is dropped
C15_Witness ==
    /\ Extracted
    /\ snapshot.totalElements = 1000
    /\ \E n \in Observed : CountOf(n) = 410 /\ ScoreOf(n) = 410 /\ ~PaletteHolds(n)

FourTuple(x) == <<x.fontFamily, x.fontSize, x.fontWeight, x.fontStyle>>

VisibleSampled == {i \in 1..Len(typoElements) : ~typoElements[i].hidden}

ClustersOf(el) ==
    {k \in 1..Len(typoStyles) : FourTuple(typoStyles[k]) = FourTuple(el.computed)}

\* C17: two visible sampled elements with identical (fontFamily, fontSize,
\* fontWeight, fontStyle) contribute to the same typography cluster whatever
\* their tag names, so no two clusters have the same four-tuple.
C17_OneClusterPerFourTuple ==
    typoPc = "extracted" =>
        /\ \A k1, k2 \in 1..Len(typoStyles) :
              k1 # k2 => FourTuple(typoStyles[k1]) # FourTuple(typoStyles[k2])
        /\ \A i \in VisibleSampled :
              /\ Cardinality(ClustersOf(typoElements[i])) = 1
              /\ \A k \in ClustersOf(typoElements[i]) :
                    \E c \in 1..Len(typoStyles[k].contexts) :
                        typoStyles[k].contexts[c] = typoElements[i].tagName

\* a visible h1 and a visible p of one font, in one cluster with both contexts
C17_Witness ==
    /\ typoPc = "extracted"
    /\ \E i, j \in VisibleSampled :
        /\ typoElements[i].tagName # typoElements[j].tagName
        /\ typoElements[i].computed = typoElements[j].computed
        /\ \E k \in ClustersOf(typoElements[i]) : Len(typoStyles[k].contexts) = 2

\* ---- claims about the navigation timeout (SpecTimeout)

\* the timeout in force without slow mode: the configured one, or 20000
BaseTimeout ==
    IF navOptions.navigationTimeout \in {Unset, 0} THEN 20000
    ELSE navOptions.navigationTimeout

\* C19: the navigation timeout is 20000 ms when none is configured, and under
\* slow mode it is three times the base timeout.
C19_TimeoutTripledWhenSlow ==
    navPc = "navigated" =>
        /\ (navOptions.navigationTimeout = Unset /\ ~navOptions.slow)
              => navTimeout = 20000
        /\ navOptions.slow => navTimeout = 3 * BaseTimeout

\* ---- claims about the canvas-only check (Spec)

\* C20: the result is flagged isCanvasOnly, with a note, exactly when the page
\* has more than 3 canvases, one of them with a WebGL context, and at most 200
\* characters of text; the flag never fails the run, leaves the other fields of
\* the assembled result as they were, and note and isCanvasOnly go together.
C20_CanvasOnlyFlag ==
    result.assembled =>
        /\ result.isCanvasOnly
             <=> (/\ canvasProbe.canvases > 3
                  /\ canvasProbe.hasWebGL
                  /\ canvasProbe.textLength <= 200)
        /\ result.note <=> result.isCanvasOnly
        /\ result.data = passes
        /\ err = "none"
        /\ outcome \in {"pending", "success"}
        /\ pc \in {"closeOk", "cli_output", "done"}

\* a run that returned a flagged result
C20_Witness ==
    /\ result.assembled
    /\ result.isCanvasOnly
    /\ canvasProbe = [canvases |-> 4, hasWebGL |-> TRUE, textLength |-> 200]
    /\ pc = "done"
    /\ outcome = "success"

\* ---- claims about the style sheet walks (SpecStyles)

\* the rules of the sheets whose rules can be read, as <<sheet, rule>> indexes
ReadableRules ==
    {sr \in (1..Len(styleSheets)) \X (1..2) :
        /\ ~styleSheets[sr[1]].crossOrigin
        /\ sr[2] <= Len(styleSheets[sr[1]].rules)}

RuleAt(sr) == styleSheets[sr[1]].rules[sr[2]]

\* C21: a cross-origin style sheet and a rule whose base selector is invalid are
\* skipped where they occur: the hover/focus pass and the breakpoint extractor
\* complete and return everything the other sheets and rules give.
C21_RuleErrorsSkipped ==
    /\ stylePc \in {"breakpoints", "hover"} =>
        /\ \A sr \in ReadableRules :
              RuleAt(sr).type = "media" =>
                 \A k \in 1..Len(RuleAt(sr).px) :
                    \E b \in 1..Len(breakpoints) : breakpoints[b] = RuleAt(sr).px[k]
        /\ \A b \in 1..Len(breakpoints) :
              \E sr \in ReadableRules :
                 /\ RuleAt(sr).type = "media"
                 /\ \E k \in 1..Len(RuleAt(sr).px) : RuleAt(sr).px[k] = breakpoints[b]
    /\ stylePc = "hover" =>
        /\ \A place \in 1..interactive : \A sr \in ReadableRules :
              (/\ place <= 50
               /\ RuleAt(sr).type = "style"
               /\ RuleAt(sr).pseudo # "none"
               /\ RuleAt(sr).selector = "matches")
              => \E h \in 1..Len(hoverFound) :
                    /\ hoverFound[h].element = place
                    /\ hoverFound[h].color = RuleAt(sr).color
                    /\ hoverFound[h].state = RuleAt(sr).pseudo
        /\ \A h \in 1..Len(hoverFound) :
              \E sr \in ReadableRules :
                 /\ RuleAt(sr).selector = "matches"
                 /\ RuleAt(sr).color = hoverFound[h].color

\* a cross-origin sheet, then a sheet whose invalid :focus rule comes before a
\* matching :hover rule and whose colors were found all the same
C21_Witness ==
    /\ stylePc = "hover"
    /\ Len(styleSheets) = 2
    /\ styleSheets[1].crossOrigin
    /\ ~styleSheets[2].crossOrigin
    /\ Len(styleSheets[2].rules) = 2
    /\ styleSheets[2].rules[1].selector = "invalid"
    /\ styleSheets[2].rules[2].selector = "matches"
    /\ Len(hoverFound) = interactive

\* C22: no hover/focus color comes from an interactive element beyond the 50th
\* in document order.
C22_FirstFiftyElements ==
    stylePc = "hover" => \A h \in 1..Len(hoverFound) : hoverFound[h].element <= 50

\* ---- claims about the steps of one navigation attempt (Spec)

\* the awaits of the six steps: the pointer move and the scroll are one step
StepOfPc ==
    [p \in {"goto", "hydrate", "waitMain", "mainTimeout", "mouse", "scroll", "stabilize",
            "readLength"} |->
        CASE p = "goto" -> 1
          [] p = "hydrate" -> 2
          [] p \in {"waitMain", "mainTimeout"} -> 3
          [] p \in {"mouse", "scroll"} -> 4
          [] p = "stabilize" -> 5
          [] p = "readLength" -> 6]

\* a step of the attempt other than the main-content wait threw
StepThrew ==
    /\ pc \in {"goto", "hydrate", "mouse", "scroll", "stabilize", "readLength"}
    /\ pc' \notin DOMAIN StepOfPc \cup {"extractLogo", "backoffThin"}

\* the order of the steps: a step begins only from the step before it, within
\* the same attempt, and the two fixed waits are 8 s and 4 s
StepsInOrder ==
    /\ (pc' = "goto" /\ pc' # pc) => pc = "loopHead" /\ attempts' = attempts + 1
    /\ (pc' \in DOMAIN StepOfPc /\ pc' # "goto" /\ pc' # pc) =>
          /\ pc \in DOMAIN StepOfPc
          /\ StepOfPc[pc'] \in {StepOfPc[pc], StepOfPc[pc] + 1}
          /\ attempts' = attempts
    /\ (pc = "hydrate" /\ pc' = "waitMain") => slept' = 8000
    /\ (pc = "stabilize" /\ pc' = "readLength") => slept' = 4000

\* a timeout of the main-content wait is swallowed: the pointer move follows
SelectorTimeoutGoesOn ==
    /\ pc = "waitMain" => pc' \in {"mouse", "mainTimeout"} /\ err' = "none"
    /\ pc = "mainTimeout" =>
          /\ pc' = "mouse"
          /\ attempts' = attempts
          /\ err' = "none"
          /\ outcome' = outcome

\* C23 (as stated): the steps of an attempt run in order, a timeout of the
\* main-content wait does not end the attempt, and an error in any other step
\* ends only the current attempt: the call goes on.
C23_StepErrorEndsOnlyAttempt ==
    [][/\ StepsInOrder
       /\ SelectorTimeoutGoesOn
       /\ StepThrew => (pc' = "backoffErr" /\ err' = "none" /\ outcome' = outcome)]_vars

\* C23 (amended): the steps of an attempt run in order, each from the one before
\* it; a timeout of the main-content wait does not end the attempt; an error in
\* any other step ends the attempt, and then on the first attempt the 3 s
\* backoff follows and the call goes on, while on the second attempt the error
\* is thrown out of the loop and ends the extractBranding call.
C23_StepsInOrder ==
    [][/\ StepsInOrder
       /\ SelectorTimeoutGoesOn
       /\ StepThrew =>
             IF attempts < maxAttempts
             THEN pc' = "backoffErr" /\ err' = "none" /\ outcome' = outcome
             ELSE pc' \notin LoopPcs /\ err' \in ErrClass]_vars

\* the first attempt ended with an error in its navigation, and the main-content
\* wait of the second attempt has timed out after the 8 s hydration wait
C23_Witness ==
    /\ pc = "mainTimeout"
    /\ attempts = 2
    /\ gotoFails = 1
    /\ slept = HydrationWait

\* ---- claims about the CSS variables of extractColors (SpecCssVariables)

\* the normalized value of a custom property: normalization applied until it no
\* longer changes the value, so that RGB(17, 17, 17) stands for #111111
CssNormalized(value) == normalizeColor(normalizeColor(value))

\* C24: in the cssVariables extractColors returns, no variable's normalized
\* value is within RGB distance 15 of a palette token, no two returned variables
\* share a normalized value, and the name returned for a normalized value is the
\* first-declared variable with that value.
C24_CssVariablesFiltered ==
    cssPc = "filtered" =>
        /\ \A k \in 1..Len(cssFiltered) : \A i \in 1..Len(cssPalette) :
              /\ CssNormalized(cssFiltered[k].value) # cssPalette[i].normalized
              /\ ~Near(CssNormalized(cssFiltered[k].value), cssPalette[i].normalized)
        /\ \A k1, k2 \in 1..Len(cssFiltered) :
              k1 # k2 =>
                 CssNormalized(cssFiltered[k1].value) # CssNormalized(cssFiltered[k2].value)
        /\ \A k \in 1..Len(cssFiltered) :
              /\ cssFiltered[k].prop \in 1..Len(cssDeclared)
              /\ cssDeclared[cssFiltered[k].prop] = cssFiltered[k].value
              /\ \A d \in 1..(cssFiltered[k].prop - 1) :
                    CssNormalized(cssDeclared[d]) # CssNormalized(cssFiltered[k].value)

\* ---- claims about the component styles (SpecComponents)

\* the buttons the extractor samples
SampledButtons == 1..(IF Len(buttonEls) < 10 THEN Len(buttonEls) ELSE 10)

\* C25: a sampled button is dropped only if an earlier sampled button has the
\* same composite key of defining style properties, so the style of every
\* sampled button is returned; at most 10 buttons, 8 inputs and 8 links are
\* returned, the links from the first 20 anchors.
C25_ButtonsByCompositeKey ==
    /\ "buttons" \in componentsDone =>
          /\ Len(components.buttons) <= 10
          /\ \A i \in SampledButtons :
                \E k \in 1..Len(components.buttons) :
                   /\ components.buttons[k].backgroundColor = buttonEls[i].backgroundColor
                   /\ components.buttons[k].padding = buttonEls[i].padding
    /\ "inputs" \in componentsDone => Len(components.inputs) <= 8
    /\ "links" \in componentsDone =>
          /\ Len(components.links) <= 8
          /\ \A k \in 1..Len(components.links) :
                \E i \in 1..Len(linkEls) : i <= 20 /\ linkEls[i] = components.links[k]

\* ---- claims about a failing fan-out extractor (Spec)

\* an error thrown while the fan-out was awaited is in flight or has been
\* delivered: the stage is the one set before Promise.all
FanOutFailed ==
    /\ err \in ErrClass
    /\ stage = "Analyzing design system in parallel..."

\* C26: when one of the eleven fan-out extractors fails, extractBranding fails
\* with that error: no result is assembled, neither the hover/focus pass nor a
\* variant pass begins, and the call makes no further navigation attempt; control
\* is in the outer catch or back at the caller.
C26_FanOutFailureFailsCall ==
    FanOutFailed =>
        /\ result = NoResult
        /\ passes = <<>>
        /\ activePass = "none"
        /\ done = {}
        /\ pc \in {"catch", "cli_innerCatch", "cli_outerCatch", "cli_launch", "done"}
        /\ outcome # "success"
        /\ pc = "done" => outcome \in {"failed", "exit1"}

\* a library call that failed in the fan-out of its second attempt
C26_Witness ==
    /\ FanOutFailed
    /\ opts.caller = "lib"
    /\ pc = "done"
    /\ outcome = "failed"
    /\ attempts = 2
    /\ started = Extractors

\* ---- claims about the page after a variant pass (Spec)

\* C27: what a variant pass changed on the page is never set back: after the
\* dark pass the theme attributes and classes and the dark color-scheme
\* emulation stay in effect during the mobile pass and the canvas check, and
\* the mobile viewport stays in effect during the canvas check.
C27_PageMutationsPersist ==
    /\ (opts.darkMode /\ pc \in MobilePcs \cup {"canvas", "closeOk", "cli_output"}) =>
          /\ page.themeAttrs
          /\ page.colorScheme = "dark"
    /\ (opts.mobile /\ pc \in {"canvas", "closeOk", "cli_output"}) =>
          page.viewport = "mobile"

\* the mobile pass is extracting colors on a page still in dark mode
C27_Witness ==
    /\ opts.darkMode
    /\ opts.mobile
    /\ pc = "mobileColors"
    /\ passes = <<"hover", "dark", "mobile">>
    /\ page = [themeAttrs |-> TRUE, colorScheme |-> "dark", viewport |-> "mobile"]

\* ---- claims about what the deduplication keeps of a group (SpecColors)

\* the candidates group g is made of, in the order of the count-sorted palette
GroupMembers(g) == colors.groups[g].members

\* C28: the deduplication selects and never combines: every palette token is
\* one of the candidates, unchanged in color, normalized value, count and
\* confidence; the counts of the candidates it absorbed are not added to it;
\* and it is the first member of its group in the count-descending order of the
\* candidates.
C28_DedupSelects ==
    Extracted =>
        \A g \in PaletteIndexes :
            /\ \E i \in CandidateIndexes : colors.palette[g] = colors.candidates[i]
            /\ colors.palette[g] = colors.candidates[colors.groups[g].head]
            /\ \A m \in GroupMembers(g) :
                  /\ colors.groups[g].head <= m
                  /\ colors.candidates[colors.groups[g].head].count
                        >= colors.candidates[m].count
            /\ \A m \in GroupMembers(g) \ {colors.groups[g].head} :
                  colors.palette[g].count
                     < colors.candidates[colors.groups[g].head].count
                       + colors.candidates[m].count

\* a group of a candidate seen 4 times and an absorbed one seen 3 times, whose
\* token has count 4
C28_Witness ==
    /\ Extracted
    /\ \E g \in PaletteIndexes :
          /\ Cardinality(GroupMembers(g)) >= 2
          /\ colors.palette[g].count = 4
          /\ \E m \in GroupMembers(g) : colors.candidates[m].count = 3

\* ---- claims about the confidence and contexts of a cluster (SpecTypography)

\* the visible sampled elements whose four-tuple is that of cluster k
ElementsOf(k) ==
    {i \in VisibleSampled : FourTuple(typoElements[i].computed) = FourTuple(typoStyles[k])}

\* the first of a non-empty set of places
FirstOf(places) == CHOOSE i \in places : \A j \in places : i <= j

\* the place where the tag is first seen among the elements of cluster k
FirstSeen(k, tag) == FirstOf({i \in ElementsOf(k) : typoElements[i].tagName = tag})

C30_CliTerminates ==
    /\ [](opts.caller = "cli" =>
            /\ launched <= 2
            /\ totalNavs <= 4
            /\ launched - closed <= 1)
    /\ <>(opts.caller = "cli" /\ pc = "done" /\ outcome \in {"success", "exit1"})

\* a CLI run that ended after two launches and four navigations, both browsers
\* closed
C30_Witness ==
    /\ opts.caller = "cli"
    /\ pc = "done"
    /\ launched = 2
    /\ closed = 2
    /\ totalNavs = 4

====
